---- MODULE Spec2Model ----
(***************************************************************************)
(* Token lifecycle and OAuth2 authorization-code exchange of the identity  *)
(* provider (app/auth, app/sso, app/core).  Every request is a process     *)
(* that runs one service call; a call suspends at each store round trip    *)
(* (await), so each call on the refresh-token table or on the code store   *)
(* is one atomic step and the steps of different calls interleave freely.  *)
(* Reads of the client and user tables, which no operation modelled here   *)
(* writes, are taken together with the step that follows them.             *)
(***************************************************************************)
EXTENDS Integers, FiniteSets, Sequences, TLC

(* ------------------------------ bounds -------------------------------- *)
\* number of CSRF states and social exchange codes generated
\* users ever created by a social login
MaxNewUsers == 2
\* rows ever added to social_accounts
MaxAccounts == 3
MaxNonces == 2
\* number of concurrent request handlers
NProcs == 2
\* refresh-token records ever created
MaxTokens == 3
\* authorization codes ever created
MaxCodes == 1
\* clock advances
MaxTicks == 1
\* clock advances while the expiry cleanup runs
MaxCleanupTicks == 2

(* ------------------------- program constants -------------------------- *)
\* settings.refresh_token_expire_days
refresh_token_expire_days == 7
\* settings.access_token_expire_minutes
access_token_expire_minutes == 30
\* timedelta(minutes=10) of create_authorization_code
AuthCodeExpireMinutes == 10
\* the clock counts seconds
RefreshTokenExpireSeconds == refresh_token_expire_days * 24 * 60 * 60
AuthCodeExpireSeconds == AuthCodeExpireMinutes * 60

\* Python's None.  Every optional request field is tested by truthiness
\* only (not dto.code, dto.redirect_uri and ..., not client_secret, ...), so
\* the empty string behaves as None everywhere and NONE stands for both.
NONE == "none"
\* a null datetime column (revoked_at) and a null id column (rotated_from)
NoTime == -1
NoId == 0

Procs == 1..NProcs

(* ------------------------- external collaborators --------------------- *)
\* The user store (app/user is an external collaborator): fixed users.
Users == {"u1", "u2"}
UserEmail(u) == IF u = "u1" THEN "a@x.com" ELSE "b@x.com"
\* u2 signed up through a social provider (its google account is linked
\* from the start) and has no password
UserPassword(u) == IF u = "u1" THEN "Secret123!" ELSE NONE

\* UserService.authenticate_user: the set holding the matching user; empty
\* when the email is unknown or the password is wrong (Unauthorized).
authenticate_user(email, password) ==
    {u \in Users : UserEmail(u) = email /\ UserPassword(u) # NONE
                   /\ UserPassword(u) = password}

(* ------------------------------ token codec --------------------------- *)
\* create_access_token: the signed claims (the signature is the record being
\* one the codec made; jti plays no role for access tokens here).
\* Claims the caller does not supply are NONE (payload.get gives None).
create_access_token(data, t) ==
    [type |-> "access", sub |-> data.sub, email |-> data.email,
     client_id |-> data.client_id, scope |-> data.scope,
     exp |-> t + access_token_expire_minutes * 60, jti |-> 0]

\* create_refresh_token: jti is a fresh uuid, so every value is distinct.
create_refresh_token(data, t, jti) ==
    [type |-> "refresh", sub |-> data.sub, email |-> data.email,
     client_id |-> data.client_id, scope |-> data.scope,
     exp |-> t + RefreshTokenExpireSeconds, jti |-> jti]

\* payload.get(key): None when the claim is absent.
payload_get(payload, key) ==
    IF key \in DOMAIN payload THEN payload[key] ELSE NONE

\* decode_token: jose's jwt.decode, called without an audience, rejects a
\* token whose exp lies before now and a token that carries an aud claim.
decode_token(token, t) == token.exp >= t /\ "aud" \notin DOMAIN token

\* A verification that decodes the token and looks no further.
verify_token_any_type(token, token_type, t) == decode_token(token, t)

\* verify_token: decodes, then requires the type claim to be the expected one.
verify_token(token, token_type, t) ==
    decode_token(token, t) /\ payload_get(token, "type") = token_type

\* hash_token: SHA-256 hex digest of the token string (injective here).
hash_token(token) == <<"sha256", token>>

\* STATE_EXPIRE_SECONDS and SOCIAL_CODE_EXPIRE_SECONDS of state_manager.
STATE_EXPIRE_SECONDS == 600
SOCIAL_CODE_EXPIRE_SECONDS == 60

(* -------------------------------- state ------------------------------- *)
VARIABLES
    now,        \* datetime.now(UTC), in seconds
    ticks,      \* clock advances so far
    tokens,     \* refresh_tokens table: id -> RefreshToken row
    nextId,     \* the next uuid4() value
    codes,      \* Redis "oauth:code:<code>" keys: code -> [entry, deadline]
    nextCode,   \* the next secrets.token_urlsafe(32) value
    pc,         \* per request handler: where its call is suspended
    req,        \* per request handler: the call and its arguments
    loc,        \* per request handler: the call's local variables
    last,       \* the call that ended in the last step, with its outcome
    rotated,    \* history: <<token, new row id>> of every refresh that returned
    loggedOut,  \* history: ids of the rows a returned logout or logout_all was for
    redeemed,   \* history: <<code, new row id>> of every exchange that returned
    kv,         \* Redis "oauth_state:..." and "social_exchange:..." keys
    nextNonce,  \* the next secrets.token_urlsafe(32) value of app/social
    delivered,  \* history: key -> how many readers were handed its value
    saved,      \* history: <<state, provider>> of every save_oauth_state
    deactivated,  \* oauth2_clients: the client_ids updated to is_active = False
    social_accounts,  \* social_accounts table: the set of its rows
    nextAccount,      \* the next uuid4() value of app/social
    social_users,     \* users table: the rows create_social_user added
    nextUser          \* the next user id

vars == <<now, ticks, tokens, nextId, codes, nextCode, pc, req, loc, last,
          rotated, loggedOut, redeemed, kv, nextNonce, delivered, saved,
          social_accounts, nextAccount, social_users, nextUser, deactivated>>

accountVars == <<social_accounts, nextAccount>>
userVars == <<social_users, nextUser>>
socialVars == <<kv, nextNonce, delivered, saved, social_accounts, nextAccount,
                social_users, nextUser>>

tokenVars == <<tokens, nextId, rotated, loggedOut>>
codeVars == <<codes, nextCode, redeemed, deactivated>>
clockVars == <<now, ticks>>

\* SocialAccount(...): a row of social_accounts.
SocialAccount(id, user_id, provider, provider_user_id) ==
    [id |-> id, user_id |-> user_id, provider |-> provider,
     provider_user_id |-> provider_user_id]

NoReq == [op |-> "none"]
NoLoc == [at |-> "none"]
\* no call ended in the last step
NoLast == [req |-> NoReq, status |-> "none"]

Init ==
    /\ now = 0
    /\ ticks = 0
    /\ tokens = <<>>
    /\ nextId = 1
    /\ codes = <<>>
    /\ nextCode = 1
    /\ pc = [p \in Procs |-> "idle"]
    /\ req = [p \in Procs |-> NoReq]
    /\ loc = [p \in Procs |-> NoLoc]
    /\ last = NoLast
    /\ rotated = {}
    /\ loggedOut = {}
    /\ redeemed = {}
    /\ kv = <<>>
    /\ nextNonce = 1
    /\ delivered = <<>>
    /\ saved = {}
    /\ deactivated = {}
    /\ social_accounts = {SocialAccount(1, "u2", "google", "g-2")}
    /\ nextAccount = 2
    /\ social_users = {}
    /\ nextUser = 1

(* ------------------------- refresh token store ------------------------ *)
\* RefreshToken(...): the row the services build.  uuid4() values for id and
\* family_id are fresh numbers; created_at plays no role.
RefreshToken(id, token_hash, user_id, family_id, rotated_from, expires_at) ==
    [id |-> id, token_hash |-> token_hash, user_id |-> user_id,
     family_id |-> family_id, rotated_from |-> rotated_from,
     expires_at |-> expires_at, revoked_at |-> NoTime]

\* RefreshTokenRepositoryImpl.create: add and flush.
create(table, refresh_token) == table @@ (refresh_token.id :> refresh_token)

\* The lookup without its  revoked_at IS NULL  filter.
find_by_token_hash_unfiltered(table, token_hash) ==
    {table[i] : i \in {j \in DOMAIN table : table[j].token_hash = token_hash}}

\* RefreshTokenRepositoryImpl.find_by_token_hash: the rows with that hash
\* and revoked_at IS NULL (scalar_one_or_none: token_hash is unique).
find_by_token_hash(table, token_hash) ==
    {table[i] : i \in {j \in DOMAIN table :
                          /\ table[j].token_hash = token_hash
                          /\ table[j].revoked_at = NoTime}}

\* A revocation that also cuts the row's lifetime short.
revoke_by_id_expiring(table, token_id, t) ==
    IF token_id \in DOMAIN table
    THEN [table EXCEPT ![token_id].revoked_at = t, ![token_id].expires_at = t]
    ELSE table

\* RefreshTokenRepositoryImpl.revoke_by_id: select by id alone, then set
\* revoked_at = now whatever it held.
revoke_by_id(table, token_id, t) ==
    IF token_id \in DOMAIN table
    THEN [table EXCEPT ![token_id].revoked_at = t]
    ELSE table

\* A revocation by user that also touches rows that are already revoked.
revoke_by_user_id_unfiltered(table, user_id, t) ==
    [i \in DOMAIN table |->
        IF table[i].user_id = user_id
        THEN [table[i] EXCEPT !.revoked_at = t]
        ELSE table[i]]

\* RefreshTokenRepositoryImpl.revoke_by_user_id: the user's rows with
\* revoked_at IS NULL get revoked_at = now.
revoke_by_user_id(table, user_id, t) ==
    [i \in DOMAIN table |->
        IF table[i].user_id = user_id /\ table[i].revoked_at = NoTime
        THEN [table[i] EXCEPT !.revoked_at = t]
        ELSE table[i]]

\* A cleanup that also removes the rows that expire at this very instant.
delete_expired_tokens_through_deadline(table, t) ==
    [i \in {j \in DOMAIN table : ~(table[j].expires_at <= t)} |-> table[i]]

\* RefreshTokenRepositoryImpl.delete_expired_tokens:
\* DELETE ... WHERE expires_at < now; every other row stays as it is.
delete_expired_tokens(table, t) ==
    [i \in {j \in DOMAIN table : ~(table[j].expires_at < t)} |-> table[i]]

(* ------------------------------ requests ------------------------------ *)
\* Calls suspended at a store call.
InFlight == {p \in Procs : pc[p] # "idle"}

\* Rows are bounded: a call goes on to create one only while one is left.
RowLeft == (nextId - 1) + Cardinality(InFlight) < MaxTokens

Ok == [status |-> "ok", detail |-> ""]
Error(status, detail) == [status |-> status, detail |-> detail]

\* raise <status>Exception(detail): the call ends, nothing else changes.
Raise(r, e) ==
    /\ last' = [req |-> r, status |-> e.status, detail |-> e.detail]
    /\ UNCHANGED <<pc, req, loc>>

\* The call goes on: it is suspended at its next store call.
Suspend(p, at, r, locals) ==
    /\ pc' = [pc EXCEPT ![p] = at]
    /\ req' = [req EXCEPT ![p] = r]
    /\ loc' = [loc EXCEPT ![p] = locals]
    /\ last' = NoLast

\* return body; response is what the HTTP endpoint sends for it.
Return(p, body, response, locals) ==
    /\ pc' = [pc EXCEPT ![p] = "idle"]
    /\ req' = [req EXCEPT ![p] = NoReq]
    /\ loc' = [loc EXCEPT ![p] = NoLoc]
    /\ last' = [req |-> req[p], status |-> "ok", detail |-> "",
                body |-> body, response |-> response, loc |-> locals]

\* Every refresh token the service has signed and that a caller can present.
IssuedRefreshTokens == {tokens[i].token_hash[2] : i \in DOMAIN tokens}

\* An access token presented where a refresh token is expected.
WrongTypeToken ==
    create_access_token([sub |-> "u1", email |-> UserEmail("u1"),
                         client_id |-> NONE, scope |-> NONE], 0)

PresentableTokens == IssuedRefreshTokens \cup {WrongTypeToken}

\* The ID token of user u1 for client web, signed with the same key: no
\* type claim, and an aud claim.
SampleIdToken ==
    [iss |-> "issuer", sub |-> "u1", aud |-> "web",
     exp |-> access_token_expire_minutes * 60, iat |-> 0,
     email |-> UserEmail("u1"), email_verified |-> TRUE,
     name |-> "alice", preferred_username |-> "alice"]

\* Every kind of token a caller can put in a request.
BearerTokens == PresentableTokens \cup {SampleIdToken}

(* ----------------------------- AuthService ---------------------------- *)
TokenDto(access_token, refresh_token) ==
    [access_token |-> access_token, refresh_token |-> refresh_token,
     token_type |-> "bearer"]

\* response_model=AccessTokenDto on POST /auth/refresh: the declared
\* fields of the returned object only.
AccessTokenDto(dto) ==
    [access_token |-> dto.access_token, token_type |-> dto.token_type]

\* A new row that joins the family of the first row instead of starting one.
new_family_shared(user_id, client_id, scope, t, uuid) ==
    LET value == create_refresh_token(
                     [sub |-> user_id, email |-> NONE,
                      client_id |-> client_id, scope |-> scope], t, uuid)
    IN [value |-> value,
        entity |-> RefreshToken(uuid, hash_token(value), user_id, 1, NoId,
                                t + RefreshTokenExpireSeconds)]

\* The row of a new family (rotated_from = None) for user_id, with its token.
new_family(user_id, client_id, scope, t, uuid) ==
    LET value == create_refresh_token(
                     [sub |-> user_id, email |-> NONE,
                      client_id |-> client_id, scope |-> scope], t, uuid)
    IN [value |-> value,
        entity |-> RefreshToken(uuid, hash_token(value), user_id, uuid, NoId,
                                t + RefreshTokenExpireSeconds)]

\* The row that replaces stored_token: same family, rotated_from = its id.
rotation(stored_token, user_id, client_id, scope, t, uuid) ==
    LET value == create_refresh_token(
                     [sub |-> user_id, email |-> NONE,
                      client_id |-> client_id, scope |-> scope], t, uuid)
    IN [value |-> value,
        entity |-> RefreshToken(uuid, hash_token(value), user_id,
                                stored_token.family_id, stored_token.id,
                                t + RefreshTokenExpireSeconds)]

\* A login that goes by the email alone.
login_any_password(p, email, password) ==
    /\ pc[p] = "idle"
    /\ RowLeft
    /\ \E user \in Users :
          /\ UserEmail(user) = email
          /\ LET access_token == create_access_token(
                     [sub |-> user, email |-> UserEmail(user),
                      client_id |-> NONE, scope |-> NONE], now)
                 new == new_family(user, NONE, NONE, now, nextId)
                 dto == TokenDto(access_token, new.value)
             IN /\ tokens' = create(tokens, new.entity)
                /\ nextId' = nextId + 1
                /\ last' = [req |-> [op |-> "login", email |-> email,
                                     password |-> password],
                            status |-> "ok", detail |-> "",
                            body |-> dto, response |-> dto, loc |-> NoLoc]
    /\ UNCHANGED <<socialVars, clockVars, codeVars, rotated, loggedOut, pc, req, loc>>

\* AuthService.login behind POST /auth/login (response_model=TokenDto).
login(p, email, password) ==
    /\ pc[p] = "idle"
    /\ LET r == [op |-> "login", email |-> email, password |-> password]
           found == authenticate_user(email, password)
       IN IF found = {}
          THEN /\ Raise(r, Error("Unauthorized", "Invalid credentials"))
               /\ UNCHANGED tokenVars
          ELSE LET user == CHOOSE u \in found : TRUE
                   access_token == create_access_token(
                       [sub |-> user, email |-> UserEmail(user),
                        client_id |-> NONE, scope |-> NONE], now)
                   new == new_family(user, NONE, NONE, now, nextId)
                   dto == TokenDto(access_token, new.value)
               IN /\ RowLeft
                  /\ tokens' = create(tokens, new.entity)
                  /\ nextId' = nextId + 1
                  /\ last' = [req |-> r, status |-> "ok", detail |-> "",
                              body |-> dto, response |-> dto, loc |-> NoLoc]
                  /\ UNCHANGED <<pc, req, loc, rotated, loggedOut>>
    /\ UNCHANGED <<socialVars, clockVars, codeVars>>

\* AuthService.login_with_user_id (the social callback's token issuance).
login_with_user_id(p, user_id, email) ==
    /\ pc[p] = "idle"
    /\ RowLeft
    /\ LET r == [op |-> "login_with_user_id", user_id |-> user_id,
                 email |-> email]
           access_token == create_access_token(
               [sub |-> user_id, email |-> email,
                client_id |-> NONE, scope |-> NONE], now)
           new == new_family(user_id, NONE, NONE, now, nextId)
           dto == TokenDto(access_token, new.value)
       IN /\ tokens' = create(tokens, new.entity)
          /\ nextId' = nextId + 1
          /\ last' = [req |-> r, status |-> "ok", detail |-> "",
                      body |-> dto, response |-> dto, loc |-> NoLoc]
    /\ UNCHANGED <<socialVars, clockVars, codeVars, rotated, loggedOut, pc, req, loc>>

\* AuthService.refresh, the checks: verify_token, the sub claim, the lookup
\* by hash among unrevoked rows, and the row's expiry.
refresh_checks(refresh_token, table, t) ==
    IF ~verify_token(refresh_token, "refresh", t)
    THEN Error("Unauthorized", "Could not validate credentials")
    ELSE IF refresh_token.sub = NONE
    THEN Error("Unauthorized", "Invalid token")
    ELSE LET found == find_by_token_hash(table, hash_token(refresh_token))
         IN IF found = {}
            THEN Error("Unauthorized", "Invalid or revoked token")
            ELSE IF (CHOOSE s \in found : TRUE).expires_at < t
            THEN Error("Unauthorized", "Token expired")
            ELSE Ok

\* A refresh that answers a token without an unrevoked row by revoking
\* every row of the token's subject.
refresh_revoking_on_replay(p, refresh_token) ==
    /\ pc[p] = "idle"
    /\ LET r == [op |-> "refresh", refresh_token |-> refresh_token]
           e == refresh_checks(refresh_token, tokens, now)
           found == find_by_token_hash(tokens, hash_token(refresh_token))
       IN IF e.status # "ok"
          THEN /\ Raise(r, e)
               /\ tokens' = IF e.detail = "Invalid or revoked token"
                            THEN revoke_by_user_id(tokens, refresh_token.sub, now)
                            ELSE tokens
          ELSE /\ RowLeft
               /\ Suspend(p, "revoke", r,
                     [at |-> "revoke", stored_token |-> CHOOSE s \in found : TRUE])
               /\ UNCHANGED tokens
    /\ UNCHANGED <<socialVars, clockVars, nextId, rotated, loggedOut, codeVars>>

\* AuthService.refresh up to revoke_by_id.  verify_token reads nothing that
\* changes, so it and find_by_token_hash are one step.
refresh(p, refresh_token) ==
    /\ pc[p] = "idle"
    /\ LET r == [op |-> "refresh", refresh_token |-> refresh_token]
           e == refresh_checks(refresh_token, tokens, now)
           found == find_by_token_hash(tokens, hash_token(refresh_token))
       IN IF e.status # "ok"
          THEN Raise(r, e)
          ELSE /\ RowLeft
               /\ Suspend(p, "revoke", r,
                     [at |-> "revoke", stored_token |-> CHOOSE s \in found : TRUE])
    /\ UNCHANGED <<socialVars, clockVars, tokenVars, codeVars>>

\* refresh / refresh_tokens: revoke_by_id(stored_token.id).
refresh_revoke(p) ==
    /\ pc[p] = "revoke"
    /\ tokens' = revoke_by_id(tokens, loc[p].stored_token.id, now)
    /\ pc' = [pc EXCEPT ![p] = "create"]
    /\ last' = NoLast
    /\ UNCHANGED <<socialVars, clockVars, nextId, rotated, loggedOut, codeVars, req, loc>>

\* AuthService.refresh: mint the new pair, persist the new row, and return
\* through POST /auth/refresh.  email is payload.get("email", ""): the
\* token's email claim, or the empty string when it has none.
refresh_create(p) ==
    /\ pc[p] = "create"
    /\ req[p].op = "refresh"
    /\ LET payload == req[p].refresh_token
           email == IF payload.email = NONE THEN "" ELSE payload.email
           access_token == create_access_token(
               [sub |-> payload.sub, email |-> email,
                client_id |-> NONE, scope |-> NONE], now)
           new == rotation(loc[p].stored_token, payload.sub, NONE, NONE,
                           now, nextId)
           dto == TokenDto(access_token, new.value)
       IN /\ tokens' = create(tokens, new.entity)
          /\ nextId' = nextId + 1
          /\ rotated' = rotated \cup {<<payload, nextId>>}
          /\ UNCHANGED loggedOut
          /\ Return(p, dto, AccessTokenDto(dto), loc[p])
    /\ UNCHANGED <<socialVars, clockVars, codeVars>>

\* AuthService.logout up to revoke_by_id: the lookup by hash; nothing to do
\* when no unrevoked row matches.  The token is not verified.
logout(p, refresh_token) ==
    /\ pc[p] = "idle"
    /\ LET r == [op |-> "logout", refresh_token |-> refresh_token]
           found == find_by_token_hash(tokens, hash_token(refresh_token))
       IN IF found = {}
          THEN /\ last' = [req |-> r, status |-> "ok", detail |-> "",
                           body |-> <<>>, response |-> <<>>, loc |-> NoLoc]
               /\ loggedOut' = loggedOut \cup
                     {i \in DOMAIN tokens :
                         tokens[i].token_hash = hash_token(refresh_token)}
               /\ UNCHANGED <<pc, req, loc>>
          ELSE /\ Suspend(p, "logout_revoke", r,
                          [at |-> "logout_revoke",
                           stored_token |-> CHOOSE x \in found : TRUE])
               /\ UNCHANGED loggedOut
    /\ UNCHANGED <<socialVars, clockVars, tokens, nextId, rotated, codeVars>>

\* A logout that revokes every row of the token's user.
logout_revoke_user(p) ==
    /\ pc[p] = "logout_revoke"
    /\ tokens' = revoke_by_user_id(tokens, loc[p].stored_token.user_id, now)
    /\ loggedOut' = loggedOut \cup {loc[p].stored_token.id}
    /\ Return(p, <<>>, <<>>, loc[p])
    /\ UNCHANGED <<socialVars, clockVars, nextId, rotated, codeVars>>

\* AuthService.logout: revoke_by_id(stored_token.id), and return.
logout_revoke(p) ==
    /\ pc[p] = "logout_revoke"
    /\ tokens' = revoke_by_id(tokens, loc[p].stored_token.id, now)
    /\ loggedOut' = loggedOut \cup {loc[p].stored_token.id}
    /\ Return(p, <<>>, <<>>, loc[p])
    /\ UNCHANGED <<socialVars, clockVars, nextId, rotated, codeVars>>

\* AuthService.logout_all behind POST /auth/logout-all.
logout_all(p, user_id) ==
    /\ pc[p] = "idle"
    /\ tokens' = revoke_by_user_id(tokens, user_id, now)
    /\ last' = [req |-> [op |-> "logout_all", user_id |-> user_id],
                status |-> "ok", detail |-> "", body |-> <<>>,
                response |-> <<>>, loc |-> NoLoc]
    /\ loggedOut' = loggedOut \cup
          {i \in DOMAIN tokens : tokens[i].user_id = user_id}
    /\ UNCHANGED <<socialVars, clockVars, nextId, rotated, codeVars,
                   pc, req, loc>>

\* The batch job of the expiry cleanup: one call of delete_expired_tokens,
\* at any time, between the store calls of the requests in flight.
expiry_cleanup ==
    /\ tokens' = delete_expired_tokens(tokens, now)
    /\ last' = [req |-> [op |-> "delete_expired_tokens"], status |-> "ok",
                detail |-> "", body |-> <<>>, response |-> <<>>,
                loc |-> NoLoc]
    /\ UNCHANGED <<socialVars, clockVars, nextId, rotated, loggedOut, codeVars,
                   pc, req, loc>>

\* AuthService.get_current_user_id behind the bearer-token dependency.
get_current_user_id(p, access_token) ==
    /\ pc[p] = "idle"
    /\ LET r == [op |-> "get_current_user_id", access_token |-> access_token]
       IN IF ~decode_token(access_token, now)
          THEN Raise(r, Error("Unauthorized", "Could not validate credentials"))
          ELSE IF ~verify_token(access_token, "access", now)
          THEN Raise(r, Error("Unauthorized", "Invalid token type"))
          ELSE IF access_token.sub = NONE
          THEN Raise(r, Error("Unauthorized", "Invalid token"))
          ELSE /\ last' = [req |-> r, status |-> "ok", detail |-> "",
                           body |-> access_token.sub,
                           response |-> access_token.sub, loc |-> NoLoc]
               /\ UNCHANGED <<pc, req, loc>>
    /\ UNCHANGED <<socialVars, clockVars, tokenVars, codeVars>>

(* ---------------------------- ClientService --------------------------- *)
\* oauth2_clients rows: a confidential client, a public one, and a
\* confidential one that has been deactivated.
OAuth2Clients ==
    { [client_id |-> "web", client_secret |-> "s3cret",
       client_type |-> "confidential", is_active |-> TRUE],
      [client_id |-> "spa", client_secret |-> NONE,
       client_type |-> "public", is_active |-> TRUE],
      [client_id |-> "old", client_secret |-> "0ldsecret",
       client_type |-> "confidential", is_active |-> FALSE] }

\* OAuth2ClientRepositoryImpl.find_by_client_id: the row as it is now,
\* is_active being False once the client has been deactivated.
find_by_client_id(client_id) ==
    {[c EXCEPT !.is_active = c.is_active /\ c.client_id \notin deactivated] :
        c \in {x \in OAuth2Clients : x.client_id = client_id}}

\* OAuth2ClientRepositoryImpl.update of a client with is_active = False.
deactivate_client(client_id) ==
    /\ \E c \in find_by_client_id(client_id) : c.is_active
    /\ deactivated' = deactivated \cup {client_id}
    /\ last' = NoLast
    /\ UNCHANGED <<socialVars, clockVars, tokenVars, codes, nextCode, redeemed,
                   pc, req, loc>>

\* A lookup that does not look at is_active.
get_client_by_client_id_any_state(client_id) == find_by_client_id(client_id)

\* ClientService.get_client_by_client_id: NotFound (empty) when the client
\* is unknown or not active.
get_client_by_client_id(client_id) ==
    {c \in find_by_client_id(client_id) : c.is_active}

\* A verification that checks the secret of confidential clients only.
verify_client_secret_confidential_only(client_id, client_secret) ==
    {c \in get_client_by_client_id(client_id) :
        c.client_type = "confidential"
           => ~(client_secret = NONE \/ c.client_secret # client_secret)}

\* ClientService.verify_client_secret: the client, or NotFound (empty).
verify_client_secret(client_id, client_secret) ==
    {c \in get_client_by_client_id(client_id) :
        IF c.client_type = "confidential"
        THEN ~(client_secret = NONE \/ c.client_secret # client_secret)
        ELSE ~(c.client_type = "public" /\ client_secret # NONE)}

(* ----------------------- authorization code store --------------------- *)
\* A request that carries no code
NoCode == 0

\* AuthorizationCodeRepositoryImpl.create: SETEX with
\* ttl = int(expires_at - now), at least 1 second.
code_create(store, auth_code, t) ==
    LET ttl_seconds == IF auth_code.expires_at - t <= 0
                       THEN 1 ELSE auth_code.expires_at - t
    IN store @@ (auth_code.code :>
                    [entry |-> auth_code, deadline |-> t + ttl_seconds])

\* A lookup in a store that never drops a key.
find_by_code_no_ttl(store, code, t) ==
    {store[c].entry : c \in {k \in DOMAIN store : k = code}}

\* AuthorizationCodeRepositoryImpl.find_by_code: GET; Redis drops the key
\* once its TTL has run out.
find_by_code(store, code, t) ==
    {store[c].entry : c \in {k \in DOMAIN store : k = code /\ t < store[k].deadline}}

\* A redemption that leaves the key in place.
mark_as_used_keeping_key(store, auth_code) == store

\* AuthorizationCodeRepositoryImpl.mark_as_used: DEL.
mark_as_used(store, auth_code) ==
    [k \in DOMAIN store \ {auth_code.code} |-> store[k]]

(* ------------------------------ SSOService ---------------------------- *)
\* base64.urlsafe_b64encode(sha256(verifier)).rstrip("="), on the verifiers
\* of the model: injective, and never the verifier itself.
S256(code_verifier) ==
    CASE code_verifier = "v1" -> "c1"
      [] code_verifier = "v2" -> "c2"
      [] code_verifier = "c1" -> "cc1"
      [] OTHER -> "cx"

\* The characters of the scope strings and scope words of the model.
Spelling(s) ==
    CASE s = "openid profile email" ->
           <<"o", "p", "e", "n", "i", "d", " ", "p", "r", "o", "f", "i", "l",
           "e", " ", "e", "m", "a", "i", "l">>
      [] s = "openid profile" ->
           <<"o", "p", "e", "n", "i", "d", " ", "p", "r", "o", "f", "i", "l",
           "e">>
      [] s = "openid email" ->
           <<"o", "p", "e", "n", "i", "d", " ", "e", "m", "a", "i", "l">>
      [] s = "profile email" ->
           <<"p", "r", "o", "f", "i", "l", "e", " ", "e", "m", "a", "i", "l">>
      [] s = "profile openid2" ->
           <<"p", "r", "o", "f", "i", "l", "e", " ", "o", "p", "e", "n", "i",
           "d", "2">>
      [] s = "openid" ->
           <<"o", "p", "e", "n", "i", "d">>
      [] s = "profile" ->
           <<"p", "r", "o", "f", "i", "l", "e">>
      [] s = "email" ->
           <<"e", "m", "a", "i", "l">>

\* str.__contains__ on character sequences: w occurs somewhere in s.
Substring(s, w) ==
    \E i \in 1..(Len(s) - Len(w) + 1) : SubSeq(s, i, i + Len(w) - 1) = w

\* Python's  word in scopes  on strings: substring search.
Contains(scopes, word) == Substring(Spelling(scopes), Spelling(word))

UserName(u) == IF u = "u1" THEN "alice" ELSE NONE
UserVerified(u) == u = "u1"

\* SSOService._create_id_token: <<>> is None.
create_id_token(user, client, scopes, t) ==
    IF ~Contains(scopes, "openid")
    THEN <<>>
    ELSE << [iss |-> "issuer", sub |-> user, aud |-> client.client_id,
             exp |-> t + access_token_expire_minutes * 60, iat |-> t,
             email |-> UserEmail(user), email_verified |-> UserVerified(user),
             name |-> IF Contains(scopes, "profile") /\ UserName(user) # NONE
                      THEN UserName(user) ELSE NONE,
             preferred_username |->
                      IF Contains(scopes, "profile") /\ UserName(user) # NONE
                      THEN UserName(user) ELSE NONE] >>

TokenResponseDto(access_token, refresh_token, scope, id_token) ==
    [access_token |-> access_token, token_type |-> "Bearer",
     expires_in |-> access_token_expire_minutes * 60,
     refresh_token |-> refresh_token, scope |-> scope, id_token |-> id_token]

\* SSOService.create_authorization_code behind GET /oauth2/authorize.
create_authorization_code(client, user_id, redirect_uri, scopes, code_challenge, code_challenge_method) ==
    /\ nextCode <= MaxCodes
    /\ LET auth_code ==
              [code |-> nextCode, client_id |-> client.client_id,
               user_id |-> user_id, redirect_uri |-> redirect_uri,
               scopes |-> scopes, code_challenge |-> code_challenge,
               code_challenge_method |-> code_challenge_method,
               expires_at |-> now + AuthCodeExpireSeconds, is_used |-> FALSE]
       IN codes' = code_create(codes, auth_code, now)
    /\ nextCode' = nextCode + 1
    /\ last' = NoLast
    /\ UNCHANGED <<socialVars, clockVars, tokenVars, redeemed, deactivated,
                   pc, req, loc>>

\* A PKCE check that compares the verifier itself with the challenge,
\* whatever the method.
pkce_check_unhashed(auth_code, code_verifier) ==
    IF auth_code.code_challenge = NONE
    THEN Ok
    ELSE IF code_verifier = NONE
    THEN Error("BadRequest", "code_verifier is required for PKCE")
    ELSE IF code_verifier # auth_code.code_challenge
    THEN Error("Unauthorized", "Invalid code_verifier")
    ELSE Ok

\* A PKCE check that is made for the methods S256 and plain only.
pkce_check_named_methods(auth_code, code_verifier) ==
    IF auth_code.code_challenge = NONE
          \/ auth_code.code_challenge_method \notin {"S256", "plain"}
    THEN Ok
    ELSE IF code_verifier = NONE
    THEN Error("BadRequest", "code_verifier is required for PKCE")
    ELSE LET challenge == IF auth_code.code_challenge_method = "S256"
                          THEN S256(code_verifier)
                          ELSE code_verifier
         IN IF challenge # auth_code.code_challenge
            THEN Error("Unauthorized", "Invalid code_verifier")
            ELSE Ok

\* The PKCE check of exchange_code_for_tokens.
pkce_check(auth_code, code_verifier) ==
    IF auth_code.code_challenge = NONE
    THEN Ok
    ELSE IF code_verifier = NONE
    THEN Error("BadRequest", "code_verifier is required for PKCE")
    ELSE LET challenge == IF auth_code.code_challenge_method = "S256"
                          THEN S256(code_verifier)
                          ELSE code_verifier
         IN IF challenge # auth_code.code_challenge
            THEN Error("Unauthorized", "Invalid code_verifier")
            ELSE Ok

\* Checks on the code that answer a redirect URI mismatch as they answer
\* a client mismatch.
code_checks_unauthorized_redirect(auth_code, dto, t) ==
    IF auth_code.expires_at < t
    THEN Error("Unauthorized", "Authorization code expired")
    ELSE IF auth_code.is_used
    THEN Error("Unauthorized", "Authorization code already used")
    ELSE IF auth_code.client_id # dto.client_id
    THEN Error("Unauthorized", "Client ID mismatch")
    ELSE IF dto.redirect_uri # NONE /\ auth_code.redirect_uri # dto.redirect_uri
    THEN Error("Unauthorized", "Redirect URI mismatch")
    ELSE pkce_check(auth_code, dto.code_verifier)

\* Checks that do not compare the code's client with the request's.
code_checks_any_client(auth_code, dto, t) ==
    IF auth_code.expires_at < t
    THEN Error("Unauthorized", "Authorization code expired")
    ELSE IF auth_code.is_used
    THEN Error("Unauthorized", "Authorization code already used")
    ELSE IF dto.redirect_uri # NONE /\ auth_code.redirect_uri # dto.redirect_uri
    THEN Error("BadRequest", "Redirect URI mismatch")
    ELSE pkce_check(auth_code, dto.code_verifier)

\* The checks of exchange_code_for_tokens on the code it found.
code_checks(auth_code, dto, t) ==
    IF auth_code.expires_at < t
    THEN Error("Unauthorized", "Authorization code expired")
    ELSE IF auth_code.is_used
    THEN Error("Unauthorized", "Authorization code already used")
    ELSE IF auth_code.client_id # dto.client_id
    THEN Error("Unauthorized", "Client ID mismatch")
    ELSE IF dto.redirect_uri # NONE /\ auth_code.redirect_uri # dto.redirect_uri
    THEN Error("BadRequest", "Redirect URI mismatch")
    ELSE pkce_check(auth_code, dto.code_verifier)

\* SSOService.exchange_code_for_tokens, the checks: grant_type, code,
\* client verification, the lookup of the code and the checks on it.
exchange_checks(dto, store, t) ==
    IF dto.grant_type # "authorization_code"
    THEN Error("BadRequest", "grant_type must be 'authorization_code'")
    ELSE IF dto.code = NoCode
    THEN Error("BadRequest", "code is required")
    ELSE IF verify_client_secret(dto.client_id, dto.client_secret) = {}
    THEN Error("NotFound", "Invalid client credentials")
    ELSE LET found == find_by_code(store, dto.code, t)
         IN IF found = {}
            THEN Error("Unauthorized", "Invalid authorization code")
            ELSE code_checks(CHOOSE a \in found : TRUE, dto, t)

\* An exchange that burns the code it found when a check on it fails.
exchange_code_for_tokens_burning(p, dto) ==
    /\ pc[p] = "idle"
    /\ LET r == [op |-> "exchange", dto |-> dto]
           e == exchange_checks(dto, codes, now)
           found == find_by_code(codes, dto.code, now)
       IN IF e.status # "ok"
          THEN /\ Raise(r, e)
               /\ codes' = IF e.status = "NotFound" \/ found = {}
                           THEN codes
                           ELSE mark_as_used(codes, CHOOSE a \in found : TRUE)
          ELSE /\ RowLeft
               /\ Suspend(p, "x_create", r,
                     [at |-> "x_create",
                      client |-> CHOOSE c \in verify_client_secret(
                                    dto.client_id, dto.client_secret) : TRUE,
                      auth_code |-> CHOOSE a \in found : TRUE])
               /\ UNCHANGED codes
    /\ UNCHANGED <<socialVars, clockVars, tokenVars, nextCode, redeemed,
                   deactivated>>

\* SSOService.exchange_code_for_tokens up to the creation of the row.  The
\* client table does not change, so the client verification and
\* find_by_code are one step.
exchange_code_for_tokens(p, dto) ==
    /\ pc[p] = "idle"
    /\ LET r == [op |-> "exchange", dto |-> dto]
           e == exchange_checks(dto, codes, now)
       IN IF e.status # "ok"
          THEN Raise(r, e)
          ELSE /\ RowLeft
               /\ Suspend(p, "x_create", r,
                     [at |-> "x_create",
                      client |-> CHOOSE c \in verify_client_secret(
                                    dto.client_id, dto.client_secret) : TRUE,
                      auth_code |-> CHOOSE a \in find_by_code(
                                    codes, dto.code, now) : TRUE])
    /\ UNCHANGED <<socialVars, clockVars, tokenVars, codeVars>>

\* exchange_code_for_tokens: mint the tokens and persist the row of a new
\* family.
exchange_create(p) ==
    /\ pc[p] = "x_create"
    /\ LET auth_code == loc[p].auth_code
           client == loc[p].client
           user == auth_code.user_id
           access_token == create_access_token(
               [sub |-> user, email |-> UserEmail(user),
                client_id |-> client.client_id, scope |-> auth_code.scopes], now)
           new == new_family(user, client.client_id, auth_code.scopes,
                             now, nextId)
       IN /\ tokens' = create(tokens, new.entity)
          /\ nextId' = nextId + 1
          /\ loc' = [loc EXCEPT ![p] =
                [at |-> "x_mark", client |-> client, auth_code |-> auth_code,
                 access_token |-> access_token, refresh_token |-> new.value,
                 row |-> nextId]]
    /\ pc' = [pc EXCEPT ![p] = "x_mark"]
    /\ last' = NoLast
    /\ UNCHANGED <<socialVars, clockVars, rotated, loggedOut, codeVars, req>>

\* exchange_code_for_tokens: mark_as_used, the ID token, and the response.
exchange_mark(p) ==
    /\ pc[p] = "x_mark"
    /\ LET auth_code == loc[p].auth_code
           id_token == create_id_token(auth_code.user_id, loc[p].client,
                                       auth_code.scopes, now)
           dto == TokenResponseDto(loc[p].access_token, loc[p].refresh_token,
                                   auth_code.scopes, id_token)
       IN /\ codes' = mark_as_used(codes, auth_code)
          /\ redeemed' = redeemed \cup {<<auth_code.code, loc[p].row>>}
          /\ Return(p, dto, dto, loc[p])
    /\ UNCHANGED <<socialVars, clockVars, tokenVars, nextCode, deactivated>>

\* SSOService.refresh_tokens, the checks: client verification, verify_token,
\* the sub and client_id claims, the lookup by hash and the row's expiry.
refresh_tokens_checks(client_id, client_secret, refresh_token, table, t) ==
    IF verify_client_secret(client_id, client_secret) = {}
    THEN Error("NotFound", "Invalid client credentials")
    ELSE IF ~verify_token(refresh_token, "refresh", t)
    THEN Error("Unauthorized", "Could not validate credentials")
    ELSE IF refresh_token.sub = NONE
    THEN Error("Unauthorized", "Invalid refresh token")
    ELSE IF refresh_token.client_id # NONE /\ refresh_token.client_id # client_id
    THEN Error("Unauthorized", "Client ID mismatch")
    ELSE LET found == find_by_token_hash(table, hash_token(refresh_token))
         IN IF found = {}
            THEN Error("Unauthorized", "Invalid or revoked token")
            ELSE IF (CHOOSE s \in found : TRUE).expires_at < t
            THEN Error("Unauthorized", "Token expired")
            ELSE Ok

\* SSOService.refresh_tokens up to revoke_by_id.
refresh_tokens(p, client_id, client_secret, refresh_token) ==
    /\ pc[p] = "idle"
    /\ LET r == [op |-> "refresh_tokens", client_id |-> client_id,
                 client_secret |-> client_secret,
                 refresh_token |-> refresh_token]
           e == refresh_tokens_checks(client_id, client_secret, refresh_token,
                                      tokens, now)
           found == find_by_token_hash(tokens, hash_token(refresh_token))
       IN IF e.status # "ok"
          THEN Raise(r, e)
          ELSE /\ RowLeft
               /\ Suspend(p, "revoke", r,
                     [at |-> "revoke", stored_token |-> CHOOSE s \in found : TRUE,
                      client |-> CHOOSE c \in verify_client_secret(
                                    client_id, client_secret) : TRUE])
    /\ UNCHANGED <<socialVars, clockVars, tokenVars, codeVars>>

\* refresh_tokens: mint the new tokens with the client's id and the token's
\* scope, persist the new row in the same family, and respond.  client is
\* the row verify_client_secret returned when the call began.
refresh_tokens_create(p) ==
    /\ pc[p] = "create"
    /\ req[p].op = "refresh_tokens"
    /\ LET payload == req[p].refresh_token
           client == loc[p].client
           user == payload.sub
           scope == IF payload.scope = NONE
                    THEN "openid profile email" ELSE payload.scope
           access_token == create_access_token(
               [sub |-> user, email |-> UserEmail(user),
                client_id |-> client.client_id, scope |-> scope], now)
           new == rotation(loc[p].stored_token, user, client.client_id, scope,
                           now, nextId)
           dto == TokenResponseDto(access_token, new.value, scope,
                                   create_id_token(user, client, scope, now))
       IN /\ tokens' = create(tokens, new.entity)
          /\ nextId' = nextId + 1
          /\ rotated' = rotated \cup {<<payload, nextId>>}
          /\ UNCHANGED loggedOut
          /\ Return(p, dto, dto, loc[p])
    /\ UNCHANGED <<socialVars, clockVars, codeVars>>

UserInfoResponseDto(user) ==
    [sub |-> user, email |-> UserEmail(user),
     email_verified |-> UserVerified(user), name |-> UserName(user),
     preferred_username |-> UserName(user)]

\* SSOService.get_user_info behind GET /oauth2/userinfo.
get_user_info(p, access_token) ==
    /\ pc[p] = "idle"
    /\ LET r == [op |-> "get_user_info", access_token |-> access_token]
       IN IF ~decode_token(access_token, now)
          THEN Raise(r, Error("Unauthorized", "Could not validate credentials"))
          ELSE IF ~verify_token(access_token, "access", now)
          THEN Raise(r, Error("Unauthorized", "Invalid token type"))
          ELSE IF access_token.sub = NONE
          THEN Raise(r, Error("Unauthorized", "Invalid token"))
          ELSE /\ last' = [req |-> r, status |-> "ok", detail |-> "",
                           body |-> UserInfoResponseDto(access_token.sub),
                           response |-> UserInfoResponseDto(access_token.sub),
                           loc |-> NoLoc]
               /\ UNCHANGED <<pc, req, loc>>
    /\ UNCHANGED <<socialVars, clockVars, tokenVars, codeVars>>

(* ----------------------------- state_manager --------------------------- *)
\* Redis keys of state_manager: f"oauth_state:{provider}:{state}" and
\* f"social_exchange:{code}".
\* A key that leaves the provider out.
oauth_state_key_any_provider(provider, state) == <<"oauth_state", "", state>>

oauth_state_key(provider, state) == <<"oauth_state", provider, state>>
social_exchange_key(code) == <<"social_exchange", "", code>>

\* redis.setex(key, seconds, value)
setex(store, key, seconds, value, t) ==
    [k \in DOMAIN store \cup {key} |->
        IF k = key THEN [value |-> value, deadline |-> t + seconds]
        ELSE store[k]]

\* A get from a store that never drops a key.
get_no_ttl(store, key, t) ==
    {store[k].value : k \in {j \in DOMAIN store : j = key}}

\* redis.get(key): the value, as a set; Redis drops a key at its deadline.
get(store, key, t) ==
    {store[k].value : k \in {j \in DOMAIN store : j = key /\ t < store[j].deadline}}

\* A delete that leaves the key where it is.
delete_keeping_key(store, key) == store

\* redis.delete(key)
delete(store, key) == [k \in DOMAIN store \ {key} |-> store[k]]

\* One more reader has been handed the value of key.
Deliver(key) ==
    delivered' = [k \in DOMAIN delivered \cup {key} |->
                     IF k \in DOMAIN delivered
                     THEN delivered[k] + (IF k = key THEN 1 ELSE 0)
                     ELSE 1]

\* GET /social/{provider}/login up to get_authorization_url:
\* save_oauth_state with a fresh state; the value is the JSON of
\* {"redirect": redirect}, or "1" when there is no redirect.
save_oauth_state(provider, redirect) ==
    /\ nextNonce <= MaxNonces
    /\ kv' = setex(kv, oauth_state_key(provider, nextNonce),
                   STATE_EXPIRE_SECONDS,
                   IF redirect # NONE THEN [redirect |-> redirect]
                   ELSE [plain |-> "1"], now)
    /\ nextNonce' = nextNonce + 1
    /\ saved' = saved \cup {<<nextNonce, provider>>}
    /\ last' = NoLast
    /\ UNCHANGED <<clockVars, tokenVars, codeVars, pc, req, loc, delivered,
                   accountVars, userVars>>

\* verify_oauth_state up to redis.delete: get, and BadRequest when there is
\* no value.
verify_oauth_state(p, state, provider) ==
    /\ pc[p] = "idle"
    /\ LET r == [op |-> "verify_oauth_state", state |-> state,
                 provider |-> provider]
           value == get(kv, oauth_state_key(provider, state), now)
       IN IF value = {}
          THEN Raise(r, Error("BadRequest", "Invalid or expired state"))
          ELSE Suspend(p, "state_delete", r,
                       [at |-> "state_delete",
                        key |-> oauth_state_key(provider, state),
                        value |-> CHOOSE v \in value : TRUE])
    /\ UNCHANGED <<socialVars, clockVars, tokenVars, codeVars>>

\* verify_oauth_state: redis.delete, then the stored dict (None for "1").
verify_oauth_state_delete(p) ==
    /\ pc[p] = "state_delete"
    /\ kv' = delete(kv, loc[p].key)
    /\ Deliver(loc[p].key)
    /\ Return(p, loc[p].value, loc[p].value, loc[p])
    /\ UNCHANGED <<clockVars, tokenVars, codeVars, nextNonce, saved, accountVars, userVars>>

\* save_social_exchange_code with a fresh code, as the callback calls it.
save_social_exchange_code(access_token, refresh_token, redirect) ==
    /\ nextNonce <= MaxNonces
    /\ kv' = setex(kv, social_exchange_key(nextNonce),
                   SOCIAL_CODE_EXPIRE_SECONDS,
                   [access_token |-> access_token,
                    refresh_token |-> refresh_token,
                    redirect |-> redirect], now)
    /\ nextNonce' = nextNonce + 1
    /\ last' = NoLast
    /\ UNCHANGED <<clockVars, tokenVars, codeVars, pc, req, loc, delivered,
                   saved, accountVars, userVars>>

\* exchange_social_code up to redis.delete: get, and None when there is no
\* value.
exchange_social_code(p, code) ==
    /\ pc[p] = "idle"
    /\ LET r == [op |-> "exchange_social_code", code |-> code]
           value == get(kv, social_exchange_key(code), now)
       IN IF value = {}
          THEN /\ last' = [req |-> r, status |-> "ok", detail |-> "",
                           body |-> <<>>, response |-> <<>>, loc |-> NoLoc]
               /\ UNCHANGED <<pc, req, loc>>
          ELSE Suspend(p, "code_delete", r,
                       [at |-> "code_delete", key |-> social_exchange_key(code),
                        value |-> CHOOSE v \in value : TRUE])
    /\ UNCHANGED <<socialVars, clockVars, tokenVars, codeVars>>

\* exchange_social_code: redis.delete, then the stored tokens.
exchange_social_code_delete(p) ==
    /\ pc[p] = "code_delete"
    /\ kv' = delete(kv, loc[p].key)
    /\ Deliver(loc[p].key)
    /\ Return(p, <<loc[p].value>>, <<loc[p].value>>, loc[p])
    /\ UNCHANGED <<clockVars, tokenVars, codeVars, nextNonce, saved, accountVars, userVars>>

(* ---------------------------- SocialService --------------------------- *)
\* UserService.has_password.
has_password(user_id) == UserPassword(user_id) # NONE

\* SocialAccountRepository: the rows of a user, the row of a provider
\* identity, insertion and deletion of a row.
find_by_user_id(table, user_id) == {sa \in table : sa.user_id = user_id}

find_by_provider_and_user_id(table, provider, provider_user_id) ==
    {sa \in table : sa.provider = provider
                    /\ sa.provider_user_id = provider_user_id}

create_social_account(table, social_account) == table \cup {social_account}

delete_social_account(table, social_account) ==
    {sa \in table : sa.id # social_account.id}

\* Rows are bounded: a call goes on to create one only while one is left.
AccountLeft ==
    (nextAccount - 1)
       + Cardinality({p \in Procs : pc[p] \in {"connect_create",
                                                "cb_create_user",
                                                "cb_create_account"}})
       < MaxAccounts

\* SocialService.connect_social_account up to the creation of the row:
\* the provider's answer for the code is provider_user_id; BadRequest when
\* that identity is linked already.
connect_social_account(p, user_id, provider, provider_user_id) ==
    /\ pc[p] = "idle"
    /\ LET r == [op |-> "connect_social_account", user_id |-> user_id,
                 provider |-> provider,
                 provider_user_id |-> provider_user_id]
           existing == find_by_provider_and_user_id(
                           social_accounts, provider, provider_user_id)
       IN IF existing # {}
          THEN Raise(r, Error("BadRequest",
                              "This social account is already connected"))
          ELSE /\ AccountLeft
               /\ Suspend(p, "connect_create", r, [at |-> "connect_create"])
    /\ UNCHANGED <<accountVars, userVars, kv, nextNonce, saved, delivered, clockVars,
                   tokenVars, codeVars>>

\* SocialService._create_social_account: the row with a new id.
connect_create(p) ==
    /\ pc[p] = "connect_create"
    /\ LET social_account == SocialAccount(nextAccount, req[p].user_id,
                                 req[p].provider, req[p].provider_user_id)
       IN /\ social_accounts' = create_social_account(social_accounts,
                                                      social_account)
          /\ nextAccount' = nextAccount + 1
          /\ Return(p, social_account, social_account, loc[p])
    /\ UNCHANGED <<userVars, kv, nextNonce, saved, delivered, clockVars, tokenVars,
                   codeVars>>

\* SocialService.disconnect_social_account, the checks on the rows read by
\* find_by_user_id: the last account of a user without password stays, and
\* the account must be among the user's.
disconnect_checks(user_id, social_account_id, rows) ==
    IF ~has_password(user_id) /\ Cardinality(rows) <= 1
    THEN Error("BadRequest",
               "Cannot disconnect the last social account without password")
    ELSE IF \A sa \in rows : sa.id # social_account_id
    THEN Error("NotFound", "Social account not found")
    ELSE Ok

\* SocialService.disconnect_social_account up to the deletion: the user's
\* rows are read and checked.
disconnect_social_account(p, user_id, social_account_id) ==
    /\ pc[p] = "idle"
    /\ LET r == [op |-> "disconnect_social_account", user_id |-> user_id,
                 social_account_id |-> social_account_id]
           rows == find_by_user_id(social_accounts, user_id)
           e == disconnect_checks(user_id, social_account_id, rows)
       IN IF e # Ok
          THEN Raise(r, e)
          ELSE Suspend(p, "disconnect_delete", r,
                  [at |-> "disconnect_delete",
                   sa |-> CHOOSE sa \in rows : sa.id = social_account_id])
    /\ UNCHANGED <<accountVars, userVars, kv, nextNonce, saved, delivered, clockVars,
                   tokenVars, codeVars>>

\* SocialService.disconnect_social_account: delete(sa), and return.
disconnect_delete(p) ==
    /\ pc[p] = "disconnect_delete"
    /\ social_accounts' = delete_social_account(social_accounts, loc[p].sa)
    /\ Return(p, <<>>, <<>>, loc[p])
    /\ UNCHANGED <<nextAccount, userVars, kv, nextNonce, saved, delivered, clockVars,
                   tokenVars, codeVars>>

\* The ids and the generated addresses of the users a social login makes.
NewUserId(n) ==
    CASE n = 1 -> "n1" [] n = 2 -> "n2" [] n = 3 -> "n3" [] OTHER -> "n4"

SocialLocalEmail(n) ==
    CASE n = 1 -> "user_1@social.local" [] n = 2 -> "user_2@social.local"
      [] n = 3 -> "user_3@social.local" [] OTHER -> "user_4@social.local"

\* UserService.get_user_by_id(user_id).email
EmailOf(user_id) ==
    IF user_id \in Users
    THEN UserEmail(user_id)
    ELSE (CHOOSE u \in social_users : u.id = user_id).email

\* Users are bounded: a callback goes on to create one only while one is
\* left.
UserLeft ==
    (nextUser - 1) + Cardinality({p \in Procs : pc[p] = "cb_create_user"})
       < MaxNewUsers

\* A callback that takes every identity for a new one.
handle_callback_always_new(p, provider, provider_user_id, email) ==
    /\ pc[p] = "idle"
    /\ RowLeft /\ UserLeft /\ AccountLeft
    /\ Suspend(p, "cb_create_user",
               [op |-> "handle_callback", provider |-> provider,
                provider_user_id |-> provider_user_id, email |-> email],
               [at |-> "cb_create_user", is_new_user |-> TRUE,
                user_id |-> NONE, email |-> NONE])
    /\ UNCHANGED <<socialVars, clockVars, tokenVars, codeVars>>

\* SocialService.handle_callback up to the first write: the provider's
\* answer for the code is (provider_user_id, email); the linked account is
\* looked up and, when there is one, its user is read.
handle_callback(p, provider, provider_user_id, email) ==
    /\ pc[p] = "idle"
    /\ RowLeft
    /\ LET r == [op |-> "handle_callback", provider |-> provider,
                 provider_user_id |-> provider_user_id, email |-> email]
           found == find_by_provider_and_user_id(
                        social_accounts, provider, provider_user_id)
       IN IF found # {}
          THEN LET social_account == CHOOSE sa \in found : TRUE
               IN Suspend(p, "cb_login", r,
                     [at |-> "cb_login", is_new_user |-> FALSE,
                      user_id |-> social_account.user_id,
                      email |-> EmailOf(social_account.user_id)])
          ELSE /\ UserLeft /\ AccountLeft
               /\ Suspend(p, "cb_create_user", r,
                     [at |-> "cb_create_user", is_new_user |-> TRUE,
                      user_id |-> NONE, email |-> NONE])
    /\ UNCHANGED <<socialVars, clockVars, tokenVars, codeVars>>

\* SocialService._create_user_from_oauth: create_social_user with the
\* provider's email, or with a generated address when it gave none.
handle_callback_create_user(p) ==
    /\ pc[p] = "cb_create_user"
    /\ LET email == IF req[p].email # NONE
                    THEN req[p].email ELSE SocialLocalEmail(nextUser)
           user == [id |-> NewUserId(nextUser), email |-> email]
       IN /\ social_users' = social_users \cup {user}
          /\ nextUser' = nextUser + 1
          /\ loc' = [loc EXCEPT ![p] =
                [at |-> "cb_create_account", is_new_user |-> TRUE,
                 user_id |-> user.id, email |-> user.email]]
    /\ pc' = [pc EXCEPT ![p] = "cb_create_account"]
    /\ last' = NoLast
    /\ UNCHANGED <<accountVars, kv, nextNonce, saved, delivered, clockVars,
                   tokenVars, codeVars, req>>

\* handle_callback: _create_social_account for the new user.
handle_callback_create_account(p) ==
    /\ pc[p] = "cb_create_account"
    /\ social_accounts' = create_social_account(
          social_accounts,
          SocialAccount(nextAccount, loc[p].user_id, req[p].provider,
                        req[p].provider_user_id))
    /\ nextAccount' = nextAccount + 1
    /\ loc' = [loc EXCEPT ![p].at = "cb_login"]
    /\ pc' = [pc EXCEPT ![p] = "cb_login"]
    /\ last' = NoLast
    /\ UNCHANGED <<userVars, kv, nextNonce, saved, delivered, clockVars, tokenVars,
                   codeVars, req>>

\* handle_callback: login_with_user_id(user_id, email), and the
\* SocialLoginDto.
handle_callback_login(p) ==
    /\ pc[p] = "cb_login"
    /\ req[p].op = "handle_callback"
    /\ LET access_token == create_access_token(
               [sub |-> loc[p].user_id, email |-> loc[p].email,
                client_id |-> NONE, scope |-> NONE], now)
           new == new_family(loc[p].user_id, NONE, NONE, now, nextId)
           dto == [access_token |-> access_token, refresh_token |-> new.value,
                   token_type |-> "bearer",
                   is_new_user |-> loc[p].is_new_user]
       IN /\ tokens' = create(tokens, new.entity)
          /\ nextId' = nextId + 1
          /\ Return(p, dto, dto, loc[p])
    /\ UNCHANGED <<socialVars, clockVars, codeVars, rotated, loggedOut>>

\* The nonces are bounded: a callback goes on to its exchange code only
\* while one is left.
NonceLeft ==
    (nextNonce - 1)
       + Cardinality({p \in Procs : req[p].op = "social_login_callback"})
       < MaxNonces

\* GET /social/{provider}/callback up to redis.delete: verify_oauth_state
\* reads the state's key.  code stands for what the provider will answer to
\* it: a profile, or no provider_user_id for a code the provider turns down.
social_login_callback(p, provider, code, state) ==
    /\ pc[p] = "idle"
    /\ LET r == [op |-> "social_login_callback", provider |-> provider,
                 code |-> code, state |-> state]
           value == get(kv, oauth_state_key(provider, state), now)
       IN IF value = {}
          THEN Raise(r, Error("BadRequest", "Invalid or expired state"))
          ELSE /\ RowLeft /\ NonceLeft
               /\ Suspend(p, "scb_delete", r,
                     [at |-> "scb_delete",
                      key |-> oauth_state_key(provider, state),
                      value |-> CHOOSE v \in value : TRUE])
    /\ UNCHANGED <<socialVars, clockVars, tokenVars, codeVars>>

\* social_login_callback: verify_oauth_state deletes the key and returns
\* the stored data.
social_login_callback_delete(p) ==
    /\ pc[p] = "scb_delete"
    /\ kv' = delete(kv, loc[p].key)
    /\ Deliver(loc[p].key)
    /\ pc' = [pc EXCEPT ![p] = "scb_handle"]
    /\ loc' = [loc EXCEPT ![p] = [at |-> "scb_handle",
                                  state_data |-> loc[p].value]]
    /\ last' = NoLast
    /\ UNCHANGED <<clockVars, tokenVars, codeVars, nextNonce, saved,
                   accountVars, userVars, req>>

\* social_login_callback: handle_callback contacts the provider, which
\* turns the code down (BadRequest) or answers with a profile, and looks
\* the social account up.
social_login_callback_handle(p) ==
    /\ pc[p] = "scb_handle"
    /\ IF req[p].code.provider_user_id = NONE
       THEN /\ pc' = [pc EXCEPT ![p] = "idle"]
            /\ req' = [req EXCEPT ![p] = NoReq]
            /\ loc' = [loc EXCEPT ![p] = NoLoc]
            /\ last' = [req |-> req[p], status |-> "BadRequest",
                        detail |-> "Failed to get access token"]
       ELSE LET r == [op |-> "social_login_callback",
                      provider |-> req[p].provider, code |-> req[p].code,
                      state |-> req[p].state,
                      provider_user_id |-> req[p].code.provider_user_id,
                      email |-> req[p].code.email,
                      state_data |-> loc[p].state_data]
                found == find_by_provider_and_user_id(
                            social_accounts, r.provider, r.provider_user_id)
            IN IF found # {}
               THEN LET social_account == CHOOSE sa \in found : TRUE
                    IN Suspend(p, "cb_login", r,
                          [at |-> "cb_login", is_new_user |-> FALSE,
                           user_id |-> social_account.user_id,
                           email |-> EmailOf(social_account.user_id)])
               ELSE /\ UserLeft /\ AccountLeft
                    /\ Suspend(p, "cb_create_user", r,
                          [at |-> "cb_create_user", is_new_user |-> TRUE,
                           user_id |-> NONE, email |-> NONE])
    /\ UNCHANGED <<socialVars, clockVars, tokenVars, codeVars>>

\* social_login_callback: handle_callback ends with login_with_user_id.
social_login_callback_login(p) ==
    /\ pc[p] = "cb_login"
    /\ req[p].op = "social_login_callback"
    /\ LET access_token == create_access_token(
               [sub |-> loc[p].user_id, email |-> loc[p].email,
                client_id |-> NONE, scope |-> NONE], now)
           new == new_family(loc[p].user_id, NONE, NONE, now, nextId)
       IN /\ tokens' = create(tokens, new.entity)
          /\ nextId' = nextId + 1
          /\ loc' = [loc EXCEPT ![p] =
                [at |-> "scb_save", access_token |-> access_token,
                 refresh_token |-> new.value,
                 is_new_user |-> loc[p].is_new_user]]
    /\ pc' = [pc EXCEPT ![p] = "scb_save"]
    /\ last' = NoLast
    /\ UNCHANGED <<socialVars, clockVars, codeVars, rotated, loggedOut, req>>

\* social_login_callback: save_social_exchange_code with a fresh code, and
\* the response that carries the code.
social_login_callback_save(p) ==
    /\ pc[p] = "scb_save"
    /\ LET redirect == IF "redirect" \in DOMAIN req[p].state_data
                       THEN req[p].state_data.redirect ELSE ""
           body == [code |-> nextNonce, is_new_user |-> loc[p].is_new_user]
       IN /\ kv' = setex(kv, social_exchange_key(nextNonce),
                         SOCIAL_CODE_EXPIRE_SECONDS,
                         [access_token |-> loc[p].access_token,
                          refresh_token |-> loc[p].refresh_token,
                          redirect |-> redirect], now)
          /\ nextNonce' = nextNonce + 1
          /\ Return(p, body, body, loc[p])
    /\ UNCHANGED <<clockVars, tokenVars, codeVars, delivered, saved,
                   accountVars, userVars>>

\* Time passes: d seconds, at most limit times.
TickWithin(limit, d) ==
    /\ ticks < limit
    /\ now' = now + d
    /\ ticks' = ticks + 1
    /\ last' = NoLast
    /\ UNCHANGED <<socialVars, tokenVars, codeVars, pc, req, loc>>

\* Time passes: d seconds.
Tick(d) == TickWithin(MaxTicks, d)

(* ------------------------------- inputs ------------------------------- *)
LoginEmails == {"a@x.com", "b@x.com", "nobody@x.com"}
LoginPasswords == {"Secret123!", "wrong"}

\* GET /oauth2/authorize: the registered redirect URI, and the PKCE
\* parameters a client may send.
RegisteredUri == "https://app.example/cb"
OtherUri == "https://evil.example/cb"
ActiveClients == {c \in OAuth2Clients : c.is_active}
PkceOptions == {<<NONE, NONE>>, <<"c1", "S256">>, <<"c1", "plain">>}

\* POST /oauth2/token: client_id with client_secret.
GoodCredentials == {<<"web", "s3cret">>, <<"spa", NONE>>}
BadCredentials == {<<"web", "wrong">>, <<"web", NONE>>, <<"spa", "s3cret">>,
                   <<"ghost", NONE>>, <<"old", "0ldsecret">>}

TokenRequestDto(grant_type, code, credentials, redirect_uri, code_verifier) ==
    [grant_type |-> grant_type, code |-> code,
     client_id |-> credentials[1], client_secret |-> credentials[2],
     redirect_uri |-> redirect_uri, code_verifier |-> code_verifier]

IssuedCodes == 1..(nextCode - 1)

\* Requests that pass the checks made before the code is looked up, with
\* every redirect URI and verifier; and one request for each way of
\* failing those checks.
TokenRequests ==
    {TokenRequestDto("authorization_code", c, k, u, v) :
        c \in IssuedCodes, k \in GoodCredentials,
        u \in {NONE, RegisteredUri, OtherUri}, v \in {NONE, "v1", "c1"}}
    \cup {TokenRequestDto("authorization_code", c, k, RegisteredUri, "v1") :
        c \in IssuedCodes, k \in BadCredentials}
    \cup {TokenRequestDto(g, c, k, RegisteredUri, "v1") :
        g \in {"refresh_token"}, c \in IssuedCodes \cup {NoCode},
        k \in {<<"web", "s3cret">>, <<"web", "wrong">>}}
    \cup {TokenRequestDto("authorization_code", NoCode, k, RegisteredUri, "v1") :
        k \in {<<"web", "s3cret">>, <<"web", "wrong">>}}

\* Requests of every client that redeem a code issued without PKCE.
GrantRequests ==
    {TokenRequestDto("authorization_code", c, k, RegisteredUri, NONE) :
        c \in IssuedCodes, k \in GoodCredentials \cup BadCredentials}

\* The clock advances to the last instant a fresh refresh token is still
\* accepted, or past it; for authorization codes, to the last instant
\* before a fresh code's expiry, or to its expiry.
RefreshTickSteps == {RefreshTokenExpireSeconds, RefreshTokenExpireSeconds + 1}
CodeTickSteps == {AuthCodeExpireSeconds - 1, AuthCodeExpireSeconds}

(* --------------------------- specifications --------------------------- *)
\* Password and social logins with refresh-token rotation (app/auth).
Next ==
    \/ \E p \in Procs, e \in LoginEmails, w \in LoginPasswords : login(p, e, w)
    \/ \E p \in Procs, u \in Users :
          \E e \in {UserEmail(u), NONE} : login_with_user_id(p, u, e)
    \/ \E p \in Procs, t \in PresentableTokens : refresh(p, t)
    \/ \E p \in Procs : refresh_revoke(p)
    \/ \E p \in Procs : refresh_create(p)
    \/ \E d \in RefreshTickSteps : Tick(d)

Spec == Init /\ [][Next]_vars

\* Sessions of two users: logins, rotation, logout and logout-all, with a
\* clock that tells one revocation from the next.
SessionTickSteps == {1}

NextSession ==
    \/ \E p \in Procs, u \in Users : login_with_user_id(p, u, UserEmail(u))
    \/ \E p \in Procs, t \in PresentableTokens : refresh(p, t)
    \/ \E p \in Procs : refresh_revoke(p)
    \/ \E p \in Procs : refresh_create(p)
    \/ \E p \in Procs, t \in PresentableTokens : logout(p, t)
    \/ \E p \in Procs : logout_revoke(p)
    \/ \E p \in Procs, u \in Users : logout_all(p, u)
    \/ \E d \in SessionTickSteps : Tick(d)

SpecSession == Init /\ [][NextSession]_vars

\* Tokens of every type presented to every operation that verifies one.
AccessTickSteps == {access_token_expire_minutes * 60,
                    access_token_expire_minutes * 60 + 1}

NextVerify ==
    \/ \E p \in Procs, u \in Users : login_with_user_id(p, u, UserEmail(u))
    \/ \E p \in Procs, t \in BearerTokens : refresh(p, t)
    \/ \E p \in Procs, t \in BearerTokens : refresh_tokens(p, "web", "s3cret", t)
    \/ \E p \in Procs : refresh_revoke(p)
    \/ \E p \in Procs : refresh_create(p)
    \/ \E p \in Procs : refresh_tokens_create(p)
    \/ \E p \in Procs, t \in BearerTokens : get_current_user_id(p, t)
    \/ \E p \in Procs, t \in BearerTokens : get_user_info(p, t)
    \/ \E d \in AccessTickSteps : Tick(d)

SpecVerify == Init /\ [][NextVerify]_vars

\* CSRF states and social exchange codes (app/core/state_manager).
Providers == {"google", "kakao"}
IssuedNonces == 1..(nextNonce - 1)
StateTickSteps == {SOCIAL_CODE_EXPIRE_SECONDS, STATE_EXPIRE_SECONDS}

NextState ==
    \/ \E v \in Providers, r \in {NONE, "/home"} : save_oauth_state(v, r)
    \/ \E p \in Procs, n \in IssuedNonces, v \in Providers :
          verify_oauth_state(p, n, v)
    \/ \E p \in Procs : verify_oauth_state_delete(p)
    \/ \E r \in {NONE, "/home"} :
          save_social_exchange_code("access", "refresh", r)
    \/ \E p \in Procs, n \in IssuedNonces : exchange_social_code(p, n)
    \/ \E p \in Procs : exchange_social_code_delete(p)
    \/ \E d \in StateTickSteps : Tick(d)

SpecState == Init /\ [][NextState]_vars

\* The OAuth2 authorization-code flow (app/sso): codes of every client and
\* PKCE option, redeemed by every request.
NextExchange ==
    \/ \E c \in ActiveClients, k \in PkceOptions :
          create_authorization_code(c, "u1", RegisteredUri,
                                    "openid profile email", k[1], k[2])
    \/ \E p \in Procs, dto \in TokenRequests : exchange_code_for_tokens(p, dto)
    \/ \E p \in Procs : exchange_create(p)
    \/ \E p \in Procs : exchange_mark(p)
    \/ \E d \in CodeTickSteps : Tick(d)

SpecExchange == Init /\ [][NextExchange]_vars

\* The OAuth2 refresh grant (app/sso) on the tokens of redeemed codes.
NextGrant ==
    \/ \E c \in ActiveClients :
          create_authorization_code(c, "u1", RegisteredUri,
                                    "openid profile email", NONE, NONE)
    \/ \E p \in Procs, dto \in GrantRequests : exchange_code_for_tokens(p, dto)
    \/ \E p \in Procs : exchange_create(p)
    \/ \E p \in Procs : exchange_mark(p)
    \/ \E p \in Procs, k \in GoodCredentials \cup BadCredentials,
          t \in PresentableTokens : refresh_tokens(p, k[1], k[2], t)
    \/ \E p \in Procs : refresh_revoke(p)
    \/ \E p \in Procs : refresh_tokens_create(p)
    \/ \E d \in RefreshTickSteps : Tick(d)

SpecGrant == Init /\ [][NextGrant]_vars

\* Every way of starting a session: password login, social login and the
\* redemption of an authorization code, next to rotations.
NextIssue ==
    \/ \E p \in Procs, e \in LoginEmails, w \in LoginPasswords : login(p, e, w)
    \/ \E p \in Procs, u \in Users : login_with_user_id(p, u, UserEmail(u))
    \/ \E c \in ActiveClients, u \in Users :
          create_authorization_code(c, u, RegisteredUri,
                                    "openid profile email", NONE, NONE)
    \/ \E p \in Procs, dto \in GrantRequests : exchange_code_for_tokens(p, dto)
    \/ \E p \in Procs : exchange_create(p)
    \/ \E p \in Procs : exchange_mark(p)
    \/ \E p \in Procs, t \in PresentableTokens : refresh(p, t)
    \/ \E p \in Procs : refresh_revoke(p)
    \/ \E p \in Procs : refresh_create(p)

SpecIssue == Init /\ [][NextIssue]_vars

\* Linking and unlinking social accounts (app/social), with the identities
\* the providers may report.
OAuthIdentities == {"g-1", "g-2"}
AccountIds == 1..(nextAccount - 1)

NextAccounts ==
    \/ \E p \in Procs, u \in Users, v \in Providers, i \in OAuthIdentities :
          connect_social_account(p, u, v, i)
    \/ \E p \in Procs : connect_create(p)
    \/ \E p \in Procs, u \in Users, a \in AccountIds :
          disconnect_social_account(p, u, a)
    \/ \E p \in Procs : disconnect_delete(p)

SpecAccounts == Init /\ [][NextAccounts]_vars

\* Rotation through both services: the session of a social login and the
\* grant of a redeemed code, refreshed through POST /auth/refresh and
\* through the refresh grant of POST /oauth2/token.
RotateCredentials == {<<"web", "s3cret">>, <<"spa", NONE>>, <<"web", "wrong">>}

NextRotate ==
    \/ \E p \in Procs : login_with_user_id(p, "u1", UserEmail("u1"))
    \/ create_authorization_code(
          CHOOSE c \in ActiveClients : c.client_id = "web", "u1",
          RegisteredUri, "openid profile email", NONE, NONE)
    \/ \E p \in Procs, c \in IssuedCodes :
          exchange_code_for_tokens(
             p, TokenRequestDto("authorization_code", c, <<"web", "s3cret">>,
                                RegisteredUri, NONE))
    \/ \E p \in Procs : exchange_create(p)
    \/ \E p \in Procs : exchange_mark(p)
    \/ \E p \in Procs, t \in PresentableTokens : refresh(p, t)
    \/ \E p \in Procs, k \in RotateCredentials, t \in PresentableTokens :
          refresh_tokens(p, k[1], k[2], t)
    \/ \E p \in Procs : refresh_revoke(p)
    \/ \E p \in Procs : refresh_create(p)
    \/ \E p \in Procs : refresh_tokens_create(p)
    \/ \E d \in RefreshTickSteps : Tick(d)

SpecRotate == Init /\ [][NextRotate]_vars

\* Grants of every requested scope, redeemed and refreshed by the clients
\* (app/sso): what the token responses carry.
AuthorizeScopes ==
    {"openid profile email", "openid profile", "openid email",
     "profile email", "profile openid2"}

NextIdToken ==
    \/ \E c \in ActiveClients, u \in Users, sc \in AuthorizeScopes :
          create_authorization_code(c, u, RegisteredUri, sc, NONE, NONE)
    \/ \E p \in Procs, c \in IssuedCodes, k \in GoodCredentials :
          exchange_code_for_tokens(
             p, TokenRequestDto("authorization_code", c, k, RegisteredUri, NONE))
    \/ \E p \in Procs : exchange_create(p)
    \/ \E p \in Procs : exchange_mark(p)
    \/ \E p \in Procs, k \in GoodCredentials, t \in PresentableTokens :
          refresh_tokens(p, k[1], k[2], t)
    \/ \E p \in Procs : refresh_revoke(p)
    \/ \E p \in Procs : refresh_tokens_create(p)

SpecIdToken == Init /\ [][NextIdToken]_vars

\* Social logins (app/social): callbacks of known and of new identities,
\* with and without an email from the provider.
ProviderEmails == {"c@x.com", NONE}

NextCallback ==
    \/ \E p \in Procs, v \in Providers, i \in OAuthIdentities,
          e \in ProviderEmails : handle_callback(p, v, i, e)
    \/ \E p \in Procs : handle_callback_create_user(p)
    \/ \E p \in Procs : handle_callback_create_account(p)
    \/ \E p \in Procs : handle_callback_login(p)

SpecCallback == Init /\ [][NextCallback]_vars

\* Flows that are started and then redeemed or abandoned while time goes
\* on: the clock advances by the longest TTL, and within the bounded run
\* values are created only while the clock can still advance.
ExpiryTickSteps == {STATE_EXPIRE_SECONDS}

NextExpiry ==
    \/ /\ ticks < MaxTicks
       /\ create_authorization_code(
             CHOOSE c \in ActiveClients : c.client_id = "web", "u1",
             RegisteredUri, "openid profile email", NONE, NONE)
    \/ ticks < MaxTicks /\ save_oauth_state("google", NONE)
    \/ ticks < MaxTicks /\ save_social_exchange_code("access", "refresh", NONE)
    \/ \E p \in Procs, c \in IssuedCodes :
          exchange_code_for_tokens(
             p, TokenRequestDto("authorization_code", c, <<"web", "s3cret">>,
                                RegisteredUri, NONE))
    \/ \E p \in Procs : exchange_create(p)
    \/ \E p \in Procs : exchange_mark(p)
    \/ \E p \in Procs, n \in IssuedNonces : verify_oauth_state(p, n, "google")
    \/ \E p \in Procs : verify_oauth_state_delete(p)
    \/ \E p \in Procs, n \in IssuedNonces : exchange_social_code(p, n)
    \/ \E p \in Procs : exchange_social_code_delete(p)
    \/ \E d \in ExpiryTickSteps : Tick(d)

\* Time goes on.
SpecExpiry ==
    Init /\ [][NextExpiry]_vars /\ WF_vars(\E d \in ExpiryTickSteps : Tick(d))


\* Sessions of one user with the expiry cleanup running beside them: the
\* clock moves a little between a login and its rotation, and by the
\* lifetime of a refresh token.
CleanupTickSteps == {1, RefreshTokenExpireSeconds}

NextCleanup ==
    \/ \E p \in Procs : login_with_user_id(p, "u1", UserEmail("u1"))
    \/ \E p \in Procs, t \in PresentableTokens : refresh(p, t)
    \/ \E p \in Procs : refresh_revoke(p)
    \/ \E p \in Procs : refresh_create(p)
    \/ \E p \in Procs, t \in PresentableTokens : logout(p, t)
    \/ \E p \in Procs : logout_revoke(p)
    \/ \E p \in Procs : logout_all(p, "u1")
    \/ expiry_cleanup
    \/ \E d \in CleanupTickSteps : TickWithin(MaxCleanupTicks, d)

SpecCleanup == Init /\ [][NextCleanup]_vars

\* The social login of a browser (app/social): states are saved, and
\* callbacks arrive for every provider with every state and with codes the
\* provider accepts or turns down.
OAuthCodes == {[provider_user_id |-> NONE, email |-> NONE],
               [provider_user_id |-> "g-2", email |-> NONE]}

NextSocialLogin ==
    \/ \E v \in Providers, r \in {NONE, "/home"} : save_oauth_state(v, r)
    \/ \E p \in Procs, v \in Providers, c \in OAuthCodes, n \in IssuedNonces :
          social_login_callback(p, v, c, n)
    \/ \E p \in Procs : social_login_callback_delete(p)
    \/ \E p \in Procs : social_login_callback_handle(p)
    \/ \E p \in Procs : handle_callback_create_user(p)
    \/ \E p \in Procs : handle_callback_create_account(p)
    \/ \E p \in Procs : social_login_callback_login(p)
    \/ \E p \in Procs : social_login_callback_save(p)
    \/ \E d \in ExpiryTickSteps : Tick(d)

SpecSocialLogin == Init /\ [][NextSocialLogin]_vars

\* PKCE with every method a code can be stored with: S256, plain, none,
\* and values the check does not know; redeemed with no verifier, with the
\* verifier whose hash is the challenge, and with the challenge itself.
PkceMethods == {"S256", "plain", NONE, "S512", "s256"}

PkceRequests ==
    {TokenRequestDto("authorization_code", c, k, RegisteredUri, v) :
        c \in IssuedCodes, k \in GoodCredentials, v \in {NONE, "v1", "c1"}}

NextPkce ==
    \/ \E c \in ActiveClients, m \in PkceMethods :
          create_authorization_code(c, "u1", RegisteredUri,
                                    "openid profile email", "c1", m)
    \/ \E p \in Procs, dto \in PkceRequests : exchange_code_for_tokens(p, dto)
    \/ \E p \in Procs : exchange_create(p)
    \/ \E p \in Procs : exchange_mark(p)

SpecPkce == Init /\ [][NextPkce]_vars

\* Password logins and the rotations of their sessions.
NextPassword ==
    \/ \E p \in Procs, e \in LoginEmails, w \in LoginPasswords : login(p, e, w)
    \/ \E p \in Procs, t \in PresentableTokens : refresh(p, t)
    \/ \E p \in Procs : refresh_revoke(p)
    \/ \E p \in Procs : refresh_create(p)
    \/ \E d \in SessionTickSteps : Tick(d)

SpecPassword == Init /\ [][NextPassword]_vars

\* A client that is deactivated while its codes and grants are around:
\* well-formed and malformed token requests in its name, in the name of a
\* client that never was active, and of one that does not exist.
InactiveCredentials == {<<"web", "s3cret">>, <<"old", "0ldsecret">>,
                        <<"ghost", NONE>>}

InactiveRequests ==
    {TokenRequestDto(g, c, k, RegisteredUri, NONE) :
        g \in {"authorization_code", "refresh_token"},
        c \in IssuedCodes \cup {NoCode}, k \in InactiveCredentials}

NextInactive ==
    \/ \E c \in get_client_by_client_id("web") :
          create_authorization_code(c, "u1", RegisteredUri,
                                    "openid profile email", NONE, NONE)
    \/ \E p \in Procs, dto \in InactiveRequests :
          exchange_code_for_tokens(p, dto)
    \/ \E p \in Procs : exchange_create(p)
    \/ \E p \in Procs : exchange_mark(p)
    \/ \E p \in Procs, k \in InactiveCredentials, t \in PresentableTokens :
          refresh_tokens(p, k[1], k[2], t)
    \/ \E p \in Procs : refresh_revoke(p)
    \/ \E p \in Procs : refresh_tokens_create(p)
    \/ deactivate_client("web")

SpecInactive == Init /\ [][NextInactive]_vars

(* ------------------------------- claims ------------------------------- *)
\* The tokens whose rotation has completed.
RotatedTokens == {x[1] : x \in rotated}

\* C1: concurrent refresh calls that present the same active token: exactly
\* one returns new tokens, so no token is the source of two completed
\* rotations.
C1_OneRotationPerToken ==
    \A x \in rotated : \A y \in rotated : x[1] = y[1] => x = y

\* C2: concurrent exchanges of one authorization code: at most one returns
\* tokens, so at most one refresh-token family is created per code.
C2_OneFamilyPerCode ==
    \A x \in redeemed : \A y \in redeemed : x[1] = y[1] => x = y

\* The codes for which an exchange has returned tokens.
RedeemedCodes == {x[1] : x \in redeemed}

\* In this step handler p passes the checks of a call of op and goes on to
\* its writes.
Begins(p, op) == pc[p] = "idle" /\ pc'[p] # "idle" /\ req'[p].op = op

\* A call of op has just failed.
Failed(op) == last.req.op = op /\ last.status \notin {"ok", "none"}

\* C3: once a refresh presenting T has completed successfully, every
\* refresh started afterwards with T fails with Unauthorized and issues no
\* tokens: it does not get past its checks.
C3_ReuseRejected ==
    [][/\ \A p \in Procs :
             Begins(p, "refresh")
                => req'[p].refresh_token \notin RotatedTokens
       /\ ((Failed("refresh") /\ last.req.refresh_token \in RotatedTokens)
              => last.status = "Unauthorized")']_vars

\* A refresh presenting a token whose rotation had completed has just been
\* rejected.
C3_Witness ==
    /\ Failed("refresh")
    /\ last.req.refresh_token \in RotatedTokens
    /\ last.detail = "Invalid or revoked token"

C5_ResponseCarriesNewRefreshToken ==
    (last.req.op = "refresh" /\ last.status = "ok")
        => /\ "refresh_token" \in DOMAIN last.response
           /\ last.response.refresh_token # last.req.refresh_token
           /\ find_by_token_hash(
                  tokens, hash_token(last.response.refresh_token)) # {}

\* Following rotated_from from row id reaches a root within fuel steps.
RECURSIVE ReachesRoot(_, _, _)
ReachesRoot(table, id, fuel) ==
    IF id \notin DOMAIN table
    THEN FALSE
    ELSE IF table[id].rotated_from = NoId
    THEN TRUE
    ELSE IF fuel = 0
    THEN FALSE
    ELSE ReachesRoot(table, table[id].rotated_from, fuel - 1)

\* C6: rotation chain integrity: a rotated row has the family_id of the row
\* its rotated_from names, rotated_from leads from every row to a root
\* without cycles, and no row is the rotated_from of two rows.
C6_FamilyIsAChain ==
    /\ \A i \in DOMAIN tokens :
          tokens[i].rotated_from # NoId
              => /\ tokens[i].rotated_from \in DOMAIN tokens
                 /\ tokens[tokens[i].rotated_from].family_id
                        = tokens[i].family_id
    /\ \A i \in DOMAIN tokens :
          ReachesRoot(tokens, i, Cardinality(DOMAIN tokens))
    /\ \A i \in DOMAIN tokens : \A j \in DOMAIN tokens :
          (i # j /\ tokens[i].rotated_from # NoId)
              => tokens[i].rotated_from # tokens[j].rotated_from

\* The live code a request names, as a set.
LiveCode(dto) == find_by_code(codes, dto.code, now)

\* The request passes every check that precedes the redirect URI's: grant
\* type, client credentials, a live code, issued to the client it names.
ReachesRedirectCheck(dto) ==
    /\ dto.grant_type = "authorization_code"
    /\ verify_client_secret(dto.client_id, dto.client_secret) # {}
    /\ \E a \in LiveCode(dto) : a.client_id = dto.client_id

\* The request passes every check that precedes the PKCE check, for a code
\* stored with an S256 challenge.
ReachesS256Check(dto) ==
    /\ ReachesRedirectCheck(dto)
    /\ \E a \in LiveCode(dto) :
          /\ dto.redirect_uri \in {NONE, a.redirect_uri}
          /\ a.code_challenge # NONE
          /\ a.code_challenge_method = "S256"

\* C7: for a code stored with challenge C and method S256, an exchange
\* returns tokens only if it presents a verifier v with S256(v) = C; an
\* otherwise valid request whose verifier hashes to something else fails
\* with Unauthorized, and one without a verifier never yields tokens.
C7_PkceS256 ==
    /\ (/\ last.req.op = "exchange"
        /\ last.status = "ok"
        /\ last.loc.auth_code.code_challenge # NONE
        /\ last.loc.auth_code.code_challenge_method = "S256")
          => /\ last.req.dto.code_verifier # NONE
             /\ S256(last.req.dto.code_verifier)
                    = last.loc.auth_code.code_challenge
    /\ \A p \in Procs :
          (/\ pc[p] \in {"x_create", "x_mark"}
           /\ loc[p].auth_code.code_challenge # NONE
           /\ loc[p].auth_code.code_challenge_method = "S256")
             => /\ req[p].dto.code_verifier # NONE
                /\ S256(req[p].dto.code_verifier)
                       = loc[p].auth_code.code_challenge
    /\ (/\ Failed("exchange")
        /\ ReachesS256Check(last.req.dto)
        /\ last.req.dto.code_verifier # NONE
        /\ \E a \in LiveCode(last.req.dto) :
              S256(last.req.dto.code_verifier) # a.code_challenge)
          => last.status = "Unauthorized"
    /\ (/\ Failed("exchange")
        /\ ReachesS256Check(last.req.dto)
        /\ last.req.dto.code_verifier = NONE)
          => last.status = "BadRequest"

\* An exchange of an S256 code presenting the challenge itself as the
\* verifier has just been rejected.
C7_Witness ==
    /\ Failed("exchange")
    /\ ReachesS256Check(last.req.dto)
    /\ \E a \in LiveCode(last.req.dto) :
          last.req.dto.code_verifier = a.code_challenge
    /\ last.status = "Unauthorized"
    /\ last.detail = "Invalid code_verifier"

\* C8: whenever exchange_code_for_tokens returns tokens, the request's
\* client_id and redirect_uri equal those stored with the code, also for a
\* request that carries no redirect_uri.
C8_ExactBinding ==
    (last.req.op = "exchange" /\ last.status = "ok")
        => /\ last.req.dto.client_id = last.loc.auth_code.client_id
           /\ last.req.dto.redirect_uri = last.loc.auth_code.redirect_uri

\* C9: an exchange with grant_type=authorization_code, a valid client and
\* a live code of that client, but a redirect_uri different from the stored
\* one, fails with BadRequest and issues no tokens: it does not get past
\* its checks.
C9_RedirectMismatchIsBadRequest ==
    [][/\ \A p \in Procs :
             Begins(p, "exchange")
                => \/ req'[p].dto.redirect_uri = NONE
                   \/ req'[p].dto.redirect_uri
                         = loc'[p].auth_code.redirect_uri
       /\ ((/\ Failed("exchange")
            /\ ReachesRedirectCheck(last.req.dto)
            /\ last.req.dto.redirect_uri # NONE
            /\ \E a \in LiveCode(last.req.dto) :
                  a.redirect_uri # last.req.dto.redirect_uri)
              => last.status = "BadRequest")']_vars

\* An exchange by the code's client with another redirect URI has just been
\* rejected.
C9_Witness ==
    /\ Failed("exchange")
    /\ ReachesRedirectCheck(last.req.dto)
    /\ last.req.dto.redirect_uri = OtherUri
    /\ last.status = "BadRequest"
    /\ last.detail = "Redirect URI mismatch"

\* client_id names an existing client and client_secret is what its type
\* requires: the stored secret of a confidential client, none for a public
\* one.
ProperCredentials(client_id, client_secret) ==
    \E c \in OAuth2Clients :
       /\ c.client_id = client_id
       /\ c.client_type = "confidential"
             => client_secret # NONE /\ client_secret = c.client_secret
       /\ c.client_type = "public" => client_secret = NONE

\* The credentials of a token request of either grant.
Credentials(r) ==
    IF r.op = "exchange"
    THEN <<r.dto.client_id, r.dto.client_secret>>
    ELSE <<r.client_id, r.client_secret>>

AccessOps == {"get_current_user_id", "get_user_info"}
RefreshOps == {"refresh", "refresh_tokens"}

\* C11: a validly signed, unexpired token passes verify_token exactly when
\* its type claim is the expected type: the operations that require an
\* access token accept one and reject refresh and ID tokens with
\* Unauthorized, and refresh and refresh_tokens never get past their checks
\* with an access or ID token.
C11_TokenTypeIsolation ==
    /\ \A tok \in PresentableTokens : \A ty \in {"access", "refresh"} :
          decode_token(tok, now)
             => (verify_token(tok, ty, now) <=> payload_get(tok, "type") = ty)
    /\ \A ty \in {"access", "refresh"} : ~verify_token(SampleIdToken, ty, now)
    /\ (last.req.op \in AccessOps /\ last.status # "none")
          => /\ last.status \in {"ok", "Unauthorized"}
             /\ last.status = "ok"
                   => payload_get(last.req.access_token, "type") = "access"
             /\ (/\ payload_get(last.req.access_token, "type") = "access"
                 /\ last.req.access_token.exp >= now)
                   => last.status = "ok"
    /\ (last.req.op \in RefreshOps /\ last.status # "none"
           /\ payload_get(last.req.refresh_token, "type") # "refresh")
          => last.status = "Unauthorized"
    /\ \A p \in Procs :
          (pc[p] # "idle" /\ req[p].op \in RefreshOps)
             => payload_get(req[p].refresh_token, "type") = "refresh"

\* An unexpired refresh token presented as bearer token to get_user_info has
\* just been rejected for its type.
C11_Witness ==
    /\ last.req.op = "get_user_info"
    /\ payload_get(last.req.access_token, "type") = "refresh"
    /\ last.req.access_token.exp >= now
    /\ last.status = "Unauthorized"
    /\ last.detail = "Invalid token type"

\* C12: revoke_by_id on a row that is already revoked changes nothing:
\* revoked_at keeps the time of the first revocation.
C12_RevocationIdempotent ==
    [][\A p \in Procs :
          (/\ pc[p] = "revoke"
           /\ pc'[p] = "create"
           /\ tokens[loc[p].stored_token.id].revoked_at # NoTime)
             => tokens'[loc[p].stored_token.id].revoked_at
                    = tokens[loc[p].stored_token.id].revoked_at]_vars

\* C13: a stored CSRF state or social exchange code is handed to at most
\* one reader, however the gets and deletes of concurrent readers
\* interleave.
C13_OneReaderPerValue ==
    \A k \in DOMAIN delivered : delivered[k] <= 1

C15_Logout ==
    [][/\ \A p \in Procs :
             Begins(p, "logout")
                => /\ loc'[p].stored_token \in {tokens[i] : i \in DOMAIN tokens}
                   /\ loc'[p].stored_token.revoked_at = NoTime
                   /\ loc'[p].stored_token.token_hash
                         = hash_token(req'[p].refresh_token)
                   /\ tokens' = tokens
       /\ (last'.req.op = "logout" /\ last'.loc = NoLoc)
             => /\ last'.status = "ok"
                /\ tokens' = tokens
                /\ \A i \in DOMAIN tokens :
                      tokens[i].token_hash = hash_token(last'.req.refresh_token)
                         => tokens[i].revoked_at # NoTime
       /\ (last'.req.op = "logout" /\ last'.loc # NoLoc)
             => /\ last'.status = "ok"
                /\ DOMAIN tokens' = DOMAIN tokens
                /\ last'.loc.stored_token.token_hash
                      = hash_token(last'.req.refresh_token)
                /\ \A i \in DOMAIN tokens :
                      IF i = last'.loc.stored_token.id
                      THEN /\ tokens'[i].revoked_at # NoTime
                           /\ [tokens'[i] EXCEPT !.revoked_at = NoTime]
                                 = last'.loc.stored_token
                      ELSE tokens'[i] = tokens[i]]_vars

\* logout has just revoked the row of its token while the same user has
\* another unrevoked row.
C15_Witness ==
    /\ last.req.op = "logout"
    /\ last.status = "ok"
    /\ last.loc # NoLoc
    /\ tokens[last.loc.stored_token.id].revoked_at # NoTime
    /\ \E i \in DOMAIN tokens :
          /\ i # last.loc.stored_token.id
          /\ tokens[i].user_id = last.loc.stored_token.user_id
          /\ tokens[i].revoked_at = NoTime

\* C20: every refresh-token family has at most one unrevoked row.
C20_OneActivePerFamily ==
    \A i \in DOMAIN tokens : \A j \in DOMAIN tokens :
       (/\ tokens[i].family_id = tokens[j].family_id
        /\ tokens[i].revoked_at = NoTime
        /\ tokens[j].revoked_at = NoTime)
          => i = j

\* The step adds exactly one row: a root row (rotated_from = None) that is
\* unrevoked, belongs to user_id and starts a family no row had before;
\* the rows that were there are as they were.
AddsRootRow(user_id) ==
    \E id \in DOMAIN tokens' \ DOMAIN tokens :
       /\ DOMAIN tokens' = DOMAIN tokens \cup {id}
       /\ \A i \in DOMAIN tokens : tokens'[i] = tokens[i]
       /\ tokens'[id].rotated_from = NoId
       /\ tokens'[id].revoked_at = NoTime
       /\ tokens'[id].user_id = user_id
       /\ \A i \in DOMAIN tokens : tokens[i].family_id # tokens'[id].family_id

\* C16: a successful login, login_with_user_id and exchange_code_for_tokens
\* each add exactly one row, a root row of a family of its own that is
\* unrevoked and owned by the authenticated user (the user of the
\* credentials, the given user, the user of the code), and change no row
\* that exists.
C16_NewSessionNewFamily ==
    [][/\ (last'.req.op = "login" /\ last'.status = "ok")
             => \E u \in Users :
                   /\ UserEmail(u) = last'.req.email
                   /\ UserPassword(u) = last'.req.password
                   /\ AddsRootRow(u)
       /\ (last'.req.op = "login_with_user_id" /\ last'.status = "ok")
             => AddsRootRow(last'.req.user_id)
       /\ \A p \in Procs :
             /\ Begins(p, "exchange") => tokens' = tokens
             /\ (pc[p] = "x_create" /\ pc'[p] # "x_create")
                   => /\ pc'[p] = "x_mark"
                      /\ AddsRootRow(loc[p].auth_code.user_id)
                      /\ loc'[p].row \in DOMAIN tokens' \ DOMAIN tokens
             /\ (pc[p] = "x_mark" /\ pc'[p] # "x_mark") => tokens' = tokens
       /\ (last'.req.op = "exchange" /\ last'.status = "ok")
             => /\ last'.loc.row \in DOMAIN tokens'
                /\ hash_token(last'.body.refresh_token)
                      = tokens'[last'.loc.row].token_hash]_vars

\* A code has just been redeemed for the root row of a third family, next
\* to the families of a password login and of a social login, one of them
\* rotated.
C16_Witness ==
    /\ last.req.op = "exchange"
    /\ last.status = "ok"
    /\ tokens[last.loc.row].rotated_from = NoId
    /\ \E i \in DOMAIN tokens : \E j \in DOMAIN tokens :
          /\ tokens[i].family_id # tokens[last.loc.row].family_id
          /\ tokens[j].family_id # tokens[last.loc.row].family_id
          /\ tokens[i].family_id # tokens[j].family_id

\* C17: a login whose email is unknown, or whose password is not the
\* password of the user with that email, fails with Unauthorized (401),
\* returns no tokens and leaves the refresh-token store as it was.
C17_BadLoginRefused ==
    [][(/\ last'.req.op = "login"
        /\ \A u \in Users :
              \/ UserEmail(u) # last'.req.email
              \/ UserPassword(u) # last'.req.password)
          => /\ last'.status = "Unauthorized"
             /\ DOMAIN last' = {"req", "status", "detail"}
             /\ tokens' = tokens
             /\ nextId' = nextId]_vars

\* A login with the wrong password of a registered user has just been
\* refused while sessions exist.
C17_Witness ==
    /\ last.req.op = "login"
    /\ last.status = "Unauthorized"
    /\ tokens # <<>>
    /\ \E u \in Users :
          /\ UserEmail(u) = last.req.email
          /\ UserPassword(u) # NONE
          /\ UserPassword(u) # last.req.password

\* C19: whatever token is looked up, find_by_token_hash returns only rows
\* that are active at the time of the call: unrevoked, and expiring later
\* than now.
C19_LookupReturnsActive ==
    \A t \in IssuedRefreshTokens :
       \A row \in find_by_token_hash(tokens, hash_token(t)) :
          row.revoked_at = NoTime /\ row.expires_at > now

\* C18: a user without password always keeps at least one social account.
C18_LastAccountStays ==
    \A u \in Users :
       ~has_password(u) => find_by_user_id(social_accounts, u) # {}

\* C21: a stored row is changed only by setting revoked_at: a row that is
\* revoked is never unrevoked again, no row disappears, and the id,
\* token_hash, user_id, family_id, rotated_from and expires_at of a row
\* never change.
C21_RevocationOnly ==
    [][\A i \in DOMAIN tokens :
          /\ i \in DOMAIN tokens'
          /\ tokens[i].revoked_at # NoTime => tokens'[i].revoked_at # NoTime
          /\ [tokens'[i] EXCEPT !.revoked_at = NoTime]
                = [tokens[i] EXCEPT !.revoked_at = NoTime]]_vars

\* A logout has just revoked its row while a row revoked at an earlier
\* time is still revoked.
C21_Witness ==
    /\ last.req.op = "logout"
    /\ last.loc # NoLoc
    /\ tokens[last.loc.stored_token.id].revoked_at = now
    /\ \E i \in DOMAIN tokens :
          /\ tokens[i].revoked_at # NoTime
          /\ tokens[i].revoked_at < now

\* C22: a refresh or refresh_tokens call that fails with Unauthorized
\* leaves every row as it was and creates none; when the refused token is
\* one that was rotated before, the row that replaced it is untouched and,
\* if it is active, its token still passes the checks of a refresh.
C22_FailedRefreshChangesNothing ==
    [][(last'.req.op \in RefreshOps /\ last'.status = "Unauthorized")
          => /\ tokens' = tokens
             /\ nextId' = nextId
             /\ \A r \in rotated :
                   (/\ r[1] = last'.req.refresh_token
                    /\ tokens[r[2]].revoked_at = NoTime
                    /\ tokens[r[2]].expires_at >= now)
                      => /\ tokens'[r[2]].revoked_at = NoTime
                         /\ refresh_checks(tokens[r[2]].token_hash[2],
                                           tokens', now').status = "ok"]_vars

\* The replay of a rotated token has just been refused while the token
\* that replaced it is unrevoked.
C22_Witness ==
    /\ last.req.op \in RefreshOps
    /\ last.status = "Unauthorized"
    /\ last.detail = "Invalid or revoked token"
    /\ \E r \in rotated :
          /\ r[1] = last.req.refresh_token
          /\ tokens[r[2]].revoked_at = NoTime

\* The request gets as far as the lookup of its code: an authorization_code
\* grant that names a code, from an active client that proved its identity.
Authenticated(dto) ==
    /\ dto.grant_type = "authorization_code"
    /\ dto.code # NoCode
    /\ \E c \in ActiveClients : c.client_id = dto.client_id
    /\ ProperCredentials(dto.client_id, dto.client_secret)

\* C23: an exchange_code_for_tokens of a correctly authenticated client
\* fails with Unauthorized, issues no token and stores no row whenever its
\* code is not in the store (never issued, redeemed, or dropped at its TTL),
\* is expired, is flagged used, or was created for another client_id.
C23_BadCodeUnauthorized ==
    [][(/\ last'.req.op = "exchange"
        /\ pc' = pc
        /\ Authenticated(last'.req.dto)
        /\ LET code == last'.req.dto.code
           IN \/ code \notin DOMAIN codes
              \/ now >= codes[code].deadline
              \/ codes[code].entry.expires_at < now
              \/ codes[code].entry.is_used
              \/ codes[code].entry.client_id # last'.req.dto.client_id)
          => /\ last'.status = "Unauthorized"
             /\ DOMAIN last' = {"req", "status", "detail"}
             /\ UNCHANGED <<tokens, nextId, codes>>]_vars

\* A client that proved its identity has just been refused the live code
\* of another client.
C23_Witness ==
    /\ last.req.op = "exchange"
    /\ last.status = "Unauthorized"
    /\ Authenticated(last.req.dto)
    /\ last.req.dto.code \in DOMAIN codes
    /\ now < codes[last.req.dto.code].deadline
    /\ codes[last.req.dto.code].entry.client_id # last.req.dto.client_id

IsScopeValue(scopes, word) ==
    Substring(<<" ">> \o Spelling(scopes) \o <<" ">>,
              <<" ">> \o Spelling(word) \o <<" ">>)

\* A token response has just been sent.
TokenResponseSent == last.req.op \in {"exchange", "refresh_tokens"} /\ last.status = "ok"

\* The user and the client of the grant behind the response just sent.
GrantUser ==
    IF last.req.op = "exchange"
    THEN last.loc.auth_code.user_id ELSE last.req.refresh_token.sub

GrantClient ==
    IF last.req.op = "exchange" THEN last.req.dto.client_id ELSE last.req.client_id

\* C25: a token response carries an id_token exactly when openid is one of
\* the space-separated values of the grant's scope; the id_token's sub is
\* the user and its aud is the requesting client's client_id.
C25_IdTokenIffOpenid ==
    TokenResponseSent
       => /\ last.body.id_token # <<>>
                <=> IsScopeValue(last.body.scope, "openid")
          /\ last.body.id_token # <<>>
                => /\ last.body.id_token[1].sub = GrantUser
                   /\ last.body.id_token[1].aud = GrantClient

\* C26: the id_token carries email and email_verified only when the email
\* scope was requested, and name and preferred_username only when the
\* profile scope was requested.
C26_ClaimsGatedByScope ==
    (TokenResponseSent /\ last.body.id_token # <<>>)
       => LET id_token == last.body.id_token[1]
          IN /\ (id_token.email # NONE \/ "email_verified" \in DOMAIN id_token)
                   => IsScopeValue(last.body.scope, "email")
             /\ (id_token.name # NONE \/ id_token.preferred_username # NONE)
                   => IsScopeValue(last.body.scope, "profile")

\* C27: the access token and the refresh token that refresh_tokens issues
\* carry exactly the client_id and the scope claims of the refresh token
\* it was given.
C27_GrantPreserved ==
    (last.req.op = "refresh_tokens" /\ last.status = "ok")
       => LET presented == last.req.refresh_token
          IN /\ last.body.access_token.client_id = presented.client_id
             /\ last.body.access_token.scope = presented.scope
             /\ last.body.refresh_token.client_id = presented.client_id
             /\ last.body.refresh_token.scope = presented.scope

\* The social_accounts rows of the identity a callback is about.
LinkedAccounts(r) ==
    find_by_provider_and_user_id(social_accounts, r.provider, r.provider_user_id)

\* C28: a callback for an identity that has a social account creates no
\* user and no social account and issues tokens for the linked user with
\* is_new_user = false; a callback for an identity without one creates
\* exactly one user and exactly one social account that links that user to
\* the identity, and issues tokens for the new user with is_new_user =
\* true.  Either way it adds exactly one new refresh-token family.
C28_CallbackLogsInOrProvisions ==
    [][\A p \in Procs :
          /\ Begins(p, "handle_callback")
                => /\ UNCHANGED <<tokens, social_accounts, social_users>>
                   /\ IF LinkedAccounts(req'[p]) # {}
                      THEN /\ pc'[p] = "cb_login"
                           /\ ~loc'[p].is_new_user
                           /\ \E sa \in LinkedAccounts(req'[p]) :
                                 loc'[p].user_id = sa.user_id
                      ELSE /\ pc'[p] = "cb_create_user"
                           /\ loc'[p].is_new_user
          /\ (pc[p] = "cb_create_user" /\ pc'[p] # pc[p])
                => /\ pc'[p] = "cb_create_account"
                   /\ loc[p].is_new_user
                   /\ \E u \in social_users' \ social_users :
                         /\ social_users' = social_users \cup {u}
                         /\ u.id \notin Users \cup {x.id : x \in social_users}
                         /\ loc'[p].user_id = u.id
                   /\ UNCHANGED <<tokens, social_accounts>>
          /\ (pc[p] = "cb_create_account" /\ pc'[p] # pc[p])
                => /\ pc'[p] = "cb_login"
                   /\ loc'[p].is_new_user
                   /\ loc'[p].user_id = loc[p].user_id
                   /\ \E sa \in social_accounts' \ social_accounts :
                         /\ social_accounts' = social_accounts \cup {sa}
                         /\ sa.user_id = loc[p].user_id
                         /\ sa.provider = req[p].provider
                         /\ sa.provider_user_id = req[p].provider_user_id
                   /\ UNCHANGED <<tokens, social_users>>
          /\ (pc[p] = "cb_login" /\ pc'[p] # pc[p])
                => /\ pc'[p] = "idle"
                   /\ last'.req.op = "handle_callback"
                   /\ last'.status = "ok"
                   /\ last'.body.is_new_user = loc[p].is_new_user
                   /\ last'.body.access_token.sub = loc[p].user_id
                   /\ last'.body.refresh_token.sub = loc[p].user_id
                   /\ AddsRootRow(loc[p].user_id)
                   /\ UNCHANGED <<social_accounts, social_users>>]_vars

\* A callback has just logged in the user of a linked identity after
\* another callback provisioned a user for a new identity.
C28_Witness ==
    /\ last.req.op = "handle_callback"
    /\ last.status = "ok"
    /\ ~last.body.is_new_user
    /\ last.body.access_token.sub \in Users
    /\ social_users # {}
    /\ \E sa \in social_accounts :
          sa.user_id \in {u.id : u \in social_users}

\* The key a call of verify_oauth_state or exchange_social_code reads.
KeyOf(r) ==
    IF r.op = "verify_oauth_state"
    THEN oauth_state_key(r.provider, r.state)
    ELSE social_exchange_key(r.code)

EphemeralOps == {"verify_oauth_state", "exchange_social_code"}

\* C29: once verify_oauth_state has returned a state's value, a later call
\* for the same state and provider fails with BadRequest; once
\* exchange_social_code has returned a code's tokens, a later call for the
\* same code returns None.  A call gets a value only from a key that is
\* in the store and short of its TTL at the time of the read.
C29_SingleUseInSequence ==
    [][/\ \A p \in Procs : \A op \in EphemeralOps :
             Begins(p, op)
                => /\ KeyOf(req'[p]) \notin DOMAIN delivered
                   /\ KeyOf(req'[p]) \in DOMAIN kv
                   /\ now < kv[KeyOf(req'[p])].deadline
                   /\ kv[KeyOf(req'[p])].deadline
                         <= now + (IF op = "verify_oauth_state"
                                   THEN STATE_EXPIRE_SECONDS
                                   ELSE SOCIAL_CODE_EXPIRE_SECONDS)
                   /\ loc'[p].value = kv[KeyOf(req'[p])].value
       /\ (/\ last'.req.op \in EphemeralOps
           /\ pc' = pc
           /\ \/ KeyOf(last'.req) \in DOMAIN delivered
              \/ KeyOf(last'.req) \notin DOMAIN kv
              \/ now >= kv[KeyOf(last'.req)].deadline)
             => IF last'.req.op = "verify_oauth_state"
                THEN last'.status = "BadRequest"
                ELSE last'.status = "ok" /\ last'.body = <<>>]_vars

\* A state has just been refused with BadRequest after an earlier call
\* returned its value, and a code has been redeemed before.
C29_Witness ==
    /\ last.req.op = "verify_oauth_state"
    /\ last.status = "BadRequest"
    /\ KeyOf(last.req) \in DOMAIN delivered
    /\ \E k \in DOMAIN delivered : k[1] = "social_exchange"

\* The authorization codes and the Redis keys that can still be redeemed.
RedeemableCodes == {c \in IssuedCodes : find_by_code(codes, c, now) # {}}

RedeemableKeys == {k \in DOMAIN kv : get(kv, k, now) # {}}

\* C30: every authorization code, CSRF state and social exchange code
\* that is created is in the end unredeemable for good, whether it was
\* consumed or left to its TTL; and a value that is not redeemable does
\* not become redeemable again.
C30_AbandonedFlowsExpire ==
    /\ [][/\ \A c \in IssuedCodes :
                c \notin RedeemableCodes => c \notin RedeemableCodes'
          /\ \A k \in DOMAIN kv :
                k \notin RedeemableKeys => k \notin RedeemableKeys']_vars
    /\ \A c \in 1..MaxCodes :
          [](c \in IssuedCodes => <>[](c \notin RedeemableCodes))
    /\ \A n \in 1..MaxNonces :
          [](n \in IssuedNonces
                => <>[](/\ oauth_state_key("google", n) \notin RedeemableKeys
                        /\ social_exchange_key(n) \notin RedeemableKeys))

\* A code, a state and an exchange code that nobody redeemed have run out.
C30_Witness ==
    /\ redeemed = {}
    /\ delivered = <<>>
    /\ \E c \in DOMAIN codes : now >= codes[c].deadline
    /\ \E k \in DOMAIN kv : k[1] = "oauth_state" /\ now >= kv[k].deadline
    /\ \E k \in DOMAIN kv : k[1] = "social_exchange" /\ now >= kv[k].deadline

C32_RotationLinkIntegrity ==
    \A i \in DOMAIN tokens :
        tokens[i].rotated_from # NoId =>
            /\ tokens[i].rotated_from \in DOMAIN tokens
            /\ tokens[tokens[i].rotated_from].family_id = tokens[i].family_id

FamilyClients(token) ==
    {tokens[j].token_hash[2].client_id :
        j \in {k \in DOMAIN tokens :
                 /\ tokens[k].rotated_from = NoId
                 /\ \E i \in DOMAIN tokens :
                       /\ tokens[i].token_hash = hash_token(token)
                       /\ tokens[i].family_id = tokens[k].family_id}}

\* C34: the client binding of a family survives every rotation path:
\* refresh_tokens accepts a refresh token only from the client for which
\* the token's family was started by a code exchange, whatever rotations of
\* AuthService.refresh and refresh_tokens lie in between, and never accepts
\* a token of a family started by a password or social login.
C34_ClientBindingSurvives ==
    (last.req.op = "refresh_tokens" /\ last.status = "ok")
       => FamilyClients(last.req.refresh_token) = {last.req.client_id}

\* C35: revocation wins over a refresh in flight: once logout(T) or
\* logout_all of T's owner has returned, no refresh or refresh_tokens call
\* presenting T returns success and stores a successor of T, also when that
\* call had looked T up before the logout ran.
C35_RevocationWins ==
    (last.req.op \in RefreshOps /\ last.status = "ok")
       => last.loc.stored_token.id \notin loggedOut

\* C36: in every reachable state there is at most one social account for a
\* pair (provider, provider_user_id), hence at most one user linked to an
\* external identity, however concurrent handle_callback and
\* connect_social_account calls for that identity interleave.
C36_OneAccountPerIdentity ==
    \A a \in social_accounts : \A b \in social_accounts :
        (a.provider = b.provider /\ a.provider_user_id = b.provider_user_id)
            => a = b

\* The key of the state a callback presents.
StateKey(r) == oauth_state_key(r.provider, r.state)

C38_PlainComparisonForOtherMethods ==
    (/\ last.req.op = "exchange"
     /\ last.status = "ok"
     /\ last.loc.auth_code.code_challenge # NONE
     /\ last.loc.auth_code.code_challenge_method # "S256")
       => last.req.dto.code_verifier = last.loc.auth_code.code_challenge

\* A code stored with a challenge and a method that is neither S256 nor
\* plain has been redeemed.
C38_Witness ==
    /\ last.req.op = "exchange"
    /\ last.status = "ok"
    /\ last.loc.auth_code.code_challenge # NONE
    /\ last.loc.auth_code.code_challenge_method \notin {"S256", "plain"}

\* C39: the access token that AuthService.refresh issues carries the sub
\* and the email claim of the access token issued by the login that
\* started the family, which are the id and the email of the family's
\* user, after every chain of rotations.
C39_RefreshedAccessTokenClaims ==
    (last.req.op = "refresh" /\ last.status = "ok")
       => LET user == last.loc.stored_token.user_id
          IN /\ last.body.access_token.sub = user
             /\ last.body.access_token.email = UserEmail(user)

\* The client named client_id does not exist or its is_active is false.
NotActive(client_id) == \A c \in find_by_client_id(client_id) : ~c.is_active

\* A token call in the name of a client that is not active ends in this
\* step, at its checks.
InactiveCallEnds ==
    /\ last'.req.op \in {"exchange", "refresh_tokens"}
    /\ last'.status # "none"
    /\ pc' = pc
    /\ NotActive(Credentials(last'.req)[1])

\* An exchange request without the grant_type authorization_code or without
\* a code.
Malformed(r) ==
    /\ r.op = "exchange"
    /\ r.dto.grant_type # "authorization_code" \/ r.dto.code = NoCode

\* C40: a client that does not exist or whose is_active is false obtains no
\* tokens: no exchange_code_for_tokens or refresh_tokens call in its name
\* gets past its checks, also for a code or a refresh token issued while
\* the client was active; the call changes no code and no refresh-token
\* record, and it fails with NotFound, whatever the code or token, unless
\* it is an exchange without the proper grant_type or without a code, which
\* fails with BadRequest.
C40_InactiveClientGetsNoTokens ==
    [][/\ \A p \in Procs :
             (Begins(p, "exchange") \/ Begins(p, "refresh_tokens"))
                => ~NotActive(Credentials(req'[p])[1])
       /\ InactiveCallEnds =>
             /\ last'.status = IF Malformed(last'.req)
                               THEN "BadRequest" ELSE "NotFound"
             /\ UNCHANGED <<tokenVars, codeVars>>
      ]_vars

\* C40 as stated: every exchange_code_for_tokens and refresh_tokens call in
\* the name of a client that does not exist or is not active fails with
\* NotFound, before a code is read or a record is revoked or created.
C40_InactiveClientGetsNotFound ==
    [][/\ \A p \in Procs :
             (Begins(p, "exchange") \/ Begins(p, "refresh_tokens"))
                => ~NotActive(Credentials(req'[p])[1])
       /\ InactiveCallEnds =>
             /\ last'.status = "NotFound"
             /\ UNCHANGED <<tokenVars, codeVars>>
      ]_vars

\* The refresh grant of a client that redeemed a code and was deactivated
\* afterwards has just been refused, with the unrevoked token of its grant.
C40_Witness ==
    /\ last.req.op = "refresh_tokens"
    /\ last.status = "NotFound"
    /\ last.req.client_id \in deactivated
    /\ last.req.refresh_token.client_id = last.req.client_id
    /\ find_by_token_hash(tokens, hash_token(last.req.refresh_token)) # {}
====
